---------------------------- MODULE Spec2Model ----------------------------
(***************************************************************************)
(* Model of the MSM forecast visualizer (visualize_final.py).              *)
(*                                                                         *)
(* main() runs two phases.  The assembly phase walks the sorted input      *)
(* files, opens each one into an ordered collection of datasets, walks the *)
(* sorted union of their forecast steps and, for every step, resolves the  *)
(* six display variables into plot_data; a non-empty plot_data becomes one *)
(* task carrying the next frame_counter.  The rendering phase hands        *)
(* all_tasks to a multiprocessing.Pool (imap, maxtasksperchild=1) and      *)
(* appends every truthy result to generated_frames.                        *)
(*                                                                         *)
(* A field is a grid of GridSize cells.  Cell values are fixed-point       *)
(* numbers with two decimals (the integer 27315 stands for 273.15).        *)
(***************************************************************************)
EXTENDS Integers, Sequences, FiniteSets, TLC

VARIABLES
    pc,                 \* position of main(): start, scan, steps, pool, done,
                        \* crashed (an exception left main)
    files,              \* sorted(glob(...)): the input files, in order
    file_pos,           \* index in files of the file being (or next) scanned
    datasets,           \* cfgrib.open_datasets(file_path) of the open file
    steps,              \* the step list of the open file
    step_pos,           \* index in steps of the next step to process
    fields,             \* the fields the open file holds at the last step read
    prev_accum_values,  \* accumulation state: display name -> raw grid
    all_tasks,          \* the assembled task tuples
    frame_counter,      \* next frame index
    origin,             \* history: origin[k] = <<file, step>> of all_tasks[k]
    accum_seen,         \* history: <<name, step, raw field>> of every step of
                        \* the open file that resolved an accumulation variable
    scanned,            \* history: how the scan of each file ended, in order
    pool_next,          \* position in all_tasks of the next task a worker takes
    workers,            \* pool slot -> [task, served] of its worker process
    cache,              \* results received and not yet yielded by imap
    outcomes,           \* history: task position -> how its rendering ended
    overtook,           \* history: the tasks that ended before an earlier task
    imap_i,             \* number of results main's loop has consumed
    generated_frames,   \* the results main's loop kept
    frames_dir,         \* the files of FRAMES_DIR: path -> file
    dl_pc,              \* position of download_msm.main(): idle, find,
                        \* compare, download, save, done, killed
    data_dir,           \* the MSM files of DATA_DIR: <<timestamp, part>> ->
                        \* content
    metadata_file,      \* content of data/metadata.json
    server,             \* the timestamps the server lists
    existing_timestamp, \* local of download_msm.main
    latest_timestamp,   \* local of download_msm.main
    target_pos,         \* index in target_files of the next file to download
    dl_log,             \* history: what the run of the downloader did so far
    dl_runs             \* history: number of runs of the downloader started

vars == <<pc, files, file_pos, datasets, steps, step_pos, fields,
          prev_accum_values, all_tasks, frame_counter, origin, accum_seen,
          scanned, pool_next, workers, cache, outcomes, overtook, imap_i,
          generated_frames, frames_dir, dl_pc, data_dir, metadata_file,
          server, existing_timestamp, latest_timestamp, target_pos, dl_log,
          dl_runs>>

dlVars == <<dl_pc, data_dir, metadata_file, server, existing_timestamp,
            latest_timestamp, target_pos, dl_log, dl_runs>>

asmVars == <<files, file_pos, datasets, steps, step_pos, fields,
             prev_accum_values, all_tasks, frame_counter, origin, accum_seen,
             scanned>>

poolVars ==
    <<pool_next, workers, cache, outcomes, overtook, imap_i, generated_frames,
      frames_dir>>

-----------------------------------------------------------------------------
(* Bounds of the exploration.                                              *)

MaxFiles == 2       \* input files of one run
MaxStep == 2        \* largest forecast step a dataset declares
MaxDatasets == 2    \* datasets of one file
GridSize == 2       \* cells of one grid
CpuCount == 3       \* multiprocessing.cpu_count() of the host
MaxTasks == 4       \* tasks assembled in one run
MaxVars == 3        \* data variables of one file whose resolution is explored
AccumSteps == 4     \* largest step of a file of cumulative precipitation
SchedTasks == 3     \* tasks of a task list handed to the rendering phase alone

None == "None"

Max(a, b) == IF a >= b THEN a ELSE b

Range(s) == {s[k] : k \in DOMAIN s}

Empty == [x \in {} |-> 0]

-----------------------------------------------------------------------------
(* Configuration.                                                          *)

MAX_WORKERS == Max(1, CpuCount - 1)

maxtasksperchild == 1

DisplayOrder ==
    <<"Temperature", "Pressure", "Humidity", "Precipitation", "Wind Speed",
      "Cloud Cover">>

Cfg(names, conv, accum, stepType, cloud) ==
    [source_names |-> names, convert |-> conv, is_accum |-> accum,
     required_stepType |-> stepType, is_cloud |-> cloud]

get_variable_config ==
    [d \in Range(DisplayOrder) |->
        CASE d = "Temperature" ->
                Cfg(<<"t", "2t", "t2m">>, "kelvin", FALSE, None, FALSE)
          [] d = "Pressure" ->
                Cfg(<<"prmsl", "msl", "sp">>, "pascal", FALSE, None, FALSE)
          [] d = "Humidity" ->
                Cfg(<<"r", "2r", "r2">>, None, FALSE, None, FALSE)
          [] d = "Precipitation" ->
                Cfg(<<"precipitation", "tp", "apcp", "unknown">>, None, TRUE,
                    "accum", FALSE)
          [] d = "Wind Speed" ->
                Cfg(<<"wind_speed">>, None, FALSE, None, FALSE)
          [] d = "Cloud Cover" ->
                Cfg(<<"tcc", "lcc", "mcc", "hcc">>, None, FALSE, None, TRUE)]

-----------------------------------------------------------------------------
(* Grids and the elementwise numpy operations the code applies to them.    *)

Cells == 1 .. GridSize

GridSum(g) ==
    LET RECURSIVE S(_)
        S(k) == IF k = 0 THEN 0 ELSE g[k] + S(k - 1)
    IN S(GridSize)

\* the raw field in place of the zero field
RawLike(g) == g

\* np.zeros_like(current_val)
ZerosLike(g) == [c \in Cells |-> 0]

\* the difference without the clamp of its negative cells
AccumDiffUnclamped(current_val, prev) ==
    [c \in Cells |-> current_val[c] - prev[c]]

\* diff = current_val - prev ; diff[diff < 0] = 0
AccumDiff(current_val, prev) ==
    [c \in Cells |-> IF current_val[c] - prev[c] < 0
                     THEN 0 ELSE current_val[c] - prev[c]]

\* np.maximum.reduce(cloud_layers), cloud_layers non-empty
MaximumReduce(layers) ==
    [c \in Cells |->
        CHOOSE m \in {layers[k][c] : k \in DOMAIN layers} :
            \A k \in DOMAIN layers : layers[k][c] <= m]

\* floor of the square root
ISqrt(n) == CHOOSE r \in 0 .. n : r * r <= n /\ (r + 1) * (r + 1) > n

\* np.sqrt(u**2 + v**2), to the precision of the fixed-point cells
Magnitude(u, v) == [c \in Cells |-> ISqrt(u[c] * u[c] + v[c] * v[c])]

KelvinOffset == 27315
KelvinThreshold == 200
PascalThreshold == 80000
PascalDivisor == 100

\* np.nanmean(x) > t, for a threshold t given in whole units
MeanAbove(x, t) == GridSum(x) > t * 100 * GridSize

\* a conversion decided cell by cell
ConvertElementwise(conv, x) ==
    CASE conv = "kelvin" ->
            [c \in Cells |-> IF x[c] > KelvinThreshold * 100
                             THEN x[c] - KelvinOffset ELSE x[c]]
      [] conv = "pascal" ->
            [c \in Cells |-> IF x[c] > PascalThreshold * 100
                             THEN x[c] \div PascalDivisor ELSE x[c]]
      [] OTHER -> x

\* cfg['convert'](values)
Convert(conv, x) ==
    CASE conv = "kelvin" ->
            IF MeanAbove(x, KelvinThreshold)
            THEN [c \in Cells |-> x[c] - KelvinOffset] ELSE x
      [] conv = "pascal" ->
            IF MeanAbove(x, PascalThreshold)
            THEN [c \in Cells |-> x[c] \div PascalDivisor] ELSE x
      [] OTHER -> x

-----------------------------------------------------------------------------
(* Datasets.  A dataset is [hasStep, steps, vars]: whether it has a step   *)
(* coordinate, the values of that coordinate, and its data variables, each *)
(* mapped to its GRIB_stepType attribute.  The fields of the open file at  *)
(* one step are a function vals from <<dataset index, name>> to a grid.    *)

data_vars(ds) == DOMAIN ds.vars

\* ds[name].sel(step=step) returns (it raises when the label is missing)
SelOk(ds, step) == ds.hasStep /\ step \in ds.steps

\* the <<dataset index, variable>> pairs that can be read at a step
Readable(dss, step) ==
    UNION {{<<d, n>> : n \in data_vars(dss[d])} :
              d \in {k \in DOMAIN dss : SelOk(dss[k], step)}}

SortedSeq(S) ==
    LET RECURSIVE Srt(_)
        Srt(T) == IF T = {} THEN <<>>
                  ELSE LET m == CHOOSE x \in T : \A y \in T : x <= y
                       IN <<m>> \o Srt(T \ {m})
    IN Srt(S)

\* the steps of the datasets listed one dataset after the other
StepListPerDataset(dss) ==
    LET RECURSIVE L(_)
        L(k) == IF k = 0 THEN <<>>
                ELSE L(k - 1) \o (IF dss[k].hasStep
                                  THEN SortedSeq(dss[k].steps) ELSE <<>>)
    IN IF L(Len(dss)) = <<>> THEN <<0>> ELSE L(Len(dss))

\* lines 327-336: the sorted union of the declared steps, or the default
StepList(dss) ==
    LET all_steps == UNION {dss[k].steps : k \in {j \in DOMAIN dss : dss[j].hasStep}}
    IN IF all_steps = {} THEN <<0>> ELSE SortedSeq(all_steps)

-----------------------------------------------------------------------------
(* Variable resolution (lines 348-432).  A resolution result is            *)
(* [found_ds, found_var_name, values, base_var]; found_ds = 0 stands for    *)
(* "found_ds is None" and base_var names the <<dataset, variable>> whose    *)
(* coordinates the bundle entry takes.                                      *)

NotFound ==
    [found_ds |-> 0, found_var_name |-> None, values |-> None, base_var |-> None]

\* lines 389-405: one alias of one dataset passes every check and is read
Accepts(ds, s_name, cfg, step) ==
    /\ s_name \in data_vars(ds)
    /\ ~(ds.hasStep /\ step \notin ds.steps)
    /\ cfg.required_stepType # None => ds.vars[s_name] = cfg.required_stepType
    /\ SelOk(ds, step)

\* lines 388-407: index of the first alias of source_names the dataset
\* accepts, 0 when it accepts none
FirstAlias(ds, cfg, step) ==
    LET RECURSIVE Scan(_)
        Scan(k) == IF k > Len(cfg.source_names) THEN 0
                   ELSE IF Accepts(ds, cfg.source_names[k], cfg, step) THEN k
                   ELSE Scan(k + 1)
    IN Scan(1)

\* lines 387-409: datasets in the outer loop, aliases in the inner loop
ResolveStandard(dss, cfg, step, vals) ==
    LET RECURSIVE Scan(_)
        Scan(d) ==
            IF d > Len(dss) THEN NotFound
            ELSE LET k == FirstAlias(dss[d], cfg, step)
                 IN IF k # 0
                    THEN [found_ds |-> d,
                          found_var_name |-> cfg.source_names[k],
                          values |-> vals[<<d, cfg.source_names[k]>>],
                          base_var |-> <<d, cfg.source_names[k]>>]
                    ELSE Scan(d + 1)
    IN Scan(1)

CloudLayerNames == <<"lcc", "mcc", "hcc">>

\* lines 413-422: the layers collected, as <<dataset, variable>> pairs in
\* the order the loops append them
CloudLayers(dss, step) ==
    LET RECURSIVE Layer(_, _)
        Layer(d, k) ==
            IF d > Len(dss) THEN <<>>
            ELSE IF k > Len(CloudLayerNames) THEN Layer(d + 1, 1)
            ELSE IF /\ CloudLayerNames[k] \in data_vars(dss[d])
                    /\ dss[d].hasStep /\ step \in dss[d].steps
                    /\ SelOk(dss[d], step)
                 THEN <<<<d, CloudLayerNames[k]>>>> \o Layer(d, k + 1)
                 ELSE Layer(d, k + 1)
    IN Layer(1, 1)

\* lines 412-429: the combination of the layers when the alias loop found
\* nothing
ResolveCloud(dss, step, vals) ==
    LET cloud_layers == CloudLayers(dss, step)
    IN IF cloud_layers = <<>> THEN NotFound
       ELSE [found_ds |-> Len(dss),
             found_var_name |-> "cloud_combined",
             values |-> MaximumReduce([k \in DOMAIN cloud_layers |->
                                          vals[cloud_layers[k]]]),
             base_var |-> cloud_layers[Len(cloud_layers)]]

\* lines 361-371: the first dataset holding a complete component pair, as
\* [found_ds, u_name, v_name]
WindPair(dss) ==
    LET RECURSIVE Scan(_)
        Scan(d) ==
            IF d > Len(dss)
            THEN [found_ds |-> 0, u_name |-> None, v_name |-> None]
            ELSE IF {"u10", "v10"} \subseteq data_vars(dss[d])
                 THEN [found_ds |-> d, u_name |-> "u10", v_name |-> "v10"]
            ELSE IF {"u", "v"} \subseteq data_vars(dss[d])
                 THEN [found_ds |-> d, u_name |-> "u", v_name |-> "v"]
            ELSE Scan(d + 1)
    IN Scan(1)

\* the pair of the first dataset holding one taken as a still field when
\* the dataset lacks the step
ResolveWindAnyStep(dss, step, vals) ==
    LET w == WindPair(dss)
    IN IF w.found_ds = 0 THEN NotFound
       ELSE [found_ds |-> w.found_ds,
             found_var_name |-> None,
             values |-> IF SelOk(dss[w.found_ds], step)
                        THEN Magnitude(vals[<<w.found_ds, w.u_name>>],
                                       vals[<<w.found_ds, w.v_name>>])
                        ELSE [c \in Cells |-> 0],
             base_var |-> <<w.found_ds, w.u_name>>]

\* the pair taken from the first dataset that holds one and has the step
ResolveWindFirstWithStep(dss, step, vals) ==
    LET RECURSIVE Scan(_)
        Scan(d) ==
            IF d > Len(dss) THEN NotFound
            ELSE LET w == WindPair(<<dss[d]>>)
                 IN IF w.found_ds # 0 /\ SelOk(dss[d], step)
                    THEN [found_ds |-> d,
                          found_var_name |-> None,
                          values |-> Magnitude(vals[<<d, w.u_name>>],
                                               vals[<<d, w.v_name>>]),
                          base_var |-> <<d, w.u_name>>]
                    ELSE Scan(d + 1)
    IN Scan(1)

\* lines 355-383
ResolveWind(dss, step, vals) ==
    LET w == WindPair(dss)
    IN IF w.found_ds # 0 /\ SelOk(dss[w.found_ds], step)
       THEN [found_ds |-> w.found_ds,
             found_var_name |-> None,
             values |-> Magnitude(vals[<<w.found_ds, w.u_name>>],
                                  vals[<<w.found_ds, w.v_name>>]),
             base_var |-> <<w.found_ds, w.u_name>>]
       ELSE NotFound

\* lines 351-432: what one display variable resolves to at a step
Resolve(disp_name, dss, step, vals) ==
    LET cfg == get_variable_config[disp_name]
    IN IF disp_name = "Wind Speed" THEN ResolveWind(dss, step, vals)
       ELSE LET std == ResolveStandard(dss, cfg, step, vals)
            IN IF std.found_ds = 0 /\ cfg.is_cloud
               THEN ResolveCloud(dss, step, vals)
               ELSE std

-----------------------------------------------------------------------------
(* Accumulation, conversion and the bundle of one step (lines 343-472).    *)

\* lines 435-448: the value emitted for an accumulation variable and the
\* accumulation state after it, as [values, prev]
Accumulate(disp_name, values, prev) ==
    LET current_val == values
    IN [values |-> IF disp_name \in DOMAIN prev
                   THEN AccumDiff(current_val, prev[disp_name])
                   ELSE ZerosLike(current_val),
        prev |-> [n \in DOMAIN prev \cup {disp_name} |->
                     IF n = disp_name THEN current_val ELSE prev[n]]]

\* a variable that is not found at a step loses its accumulation state
ProcessVariableForgets(disp_name, dss, step, vals, prev) ==
    LET cfg == get_variable_config[disp_name]
        r == Resolve(disp_name, dss, step, vals)
    IN IF r.found_ds = 0
       THEN [stored |-> FALSE, entry |-> None,
             prev |-> [n \in DOMAIN prev \ {disp_name} |-> prev[n]]]
       ELSE LET acc == IF cfg.is_accum
                       THEN Accumulate(disp_name, r.values, prev)
                       ELSE [values |-> r.values, prev |-> prev]
            IN [stored |-> TRUE,
                entry |-> [values |-> Convert(cfg.convert, acc.values),
                           base_var |-> r.base_var],
                prev |-> acc.prev]

\* lines 348-472: one iteration of the loop over var_configs, as
\* [stored, entry, prev]
ProcessVariable(disp_name, dss, step, vals, prev) ==
    LET cfg == get_variable_config[disp_name]
        r == Resolve(disp_name, dss, step, vals)
    IN IF r.found_ds = 0
       THEN [stored |-> FALSE, entry |-> None, prev |-> prev]
       ELSE LET acc == IF cfg.is_accum
                       THEN Accumulate(disp_name, r.values, prev)
                       ELSE [values |-> r.values, prev |-> prev]
            IN [stored |-> TRUE,
                entry |-> [values |-> Convert(cfg.convert, acc.values),
                           base_var |-> r.base_var],
                prev |-> acc.prev]

\* the loop over var_configs left at the first variable that is not found
BuildBundleUntilMiss(dss, step, vals, prev) ==
    LET RECURSIVE Fold(_, _, _)
        Fold(k, plot_data, pv) ==
            IF k > Len(DisplayOrder) THEN [plot_data |-> plot_data, prev |-> pv]
            ELSE LET v == ProcessVariable(DisplayOrder[k], dss, step, vals, pv)
                 IN IF ~v.stored THEN [plot_data |-> plot_data, prev |-> pv]
                    ELSE Fold(k + 1,
                              [n \in DOMAIN plot_data \cup {DisplayOrder[k]} |->
                                  IF n = DisplayOrder[k] THEN v.entry
                                  ELSE plot_data[n]],
                              v.prev)
    IN Fold(1, Empty, prev)

\* lines 344-472: plot_data of one step and the accumulation state after it
BuildBundle(dss, step, vals, prev) ==
    LET RECURSIVE Fold(_, _, _)
        Fold(k, plot_data, pv) ==
            IF k > Len(DisplayOrder) THEN [plot_data |-> plot_data, prev |-> pv]
            ELSE LET v == ProcessVariable(DisplayOrder[k], dss, step, vals, pv)
                 IN Fold(k + 1,
                         IF v.stored
                         THEN [n \in DOMAIN plot_data \cup {DisplayOrder[k]} |->
                                  IF n = DisplayOrder[k] THEN v.entry
                                  ELSE plot_data[n]]
                         ELSE plot_data,
                         v.prev)
    IN Fold(1, Empty, prev)

\* the decimal digits of n, most significant first
Digits(n) ==
    LET RECURSIVE D(_)
        D(m) == IF m < 10 THEN <<m>> ELSE D(m \div 10) \o <<m % 10>>
    IN D(n)

\* f"{n:04d}"
Pad4(n) ==
    LET d == Digits(n)
    IN [k \in 1 .. Max(0, 4 - Len(d)) |-> 0] \o d

\* line 475: os.path.join(FRAMES_DIR, f"frame_{frame_counter:04d}.png")
FramePath(n) == <<"output/frames", "frame_", Pad4(n), ".png">>

\* a task tuple indexed by its step instead of the frame counter
TaskIndexedByStep(n, plot_data, step) ==
    [frame_idx |-> step, plot_data |-> plot_data, valid_time |-> step,
     output_path |-> FramePath(step)]

\* line 476: the task tuple
Task(n, plot_data, step) ==
    [frame_idx |-> n, plot_data |-> plot_data, valid_time |-> step,
     output_path |-> FramePath(n)]

-----------------------------------------------------------------------------
(* The assembly phase of main (lines 301-487).                             *)

DecodeError == "DecodeError"

\* lines 323-325: open_datasets returns an empty list
NoDatasets == "NoDatasets"

\* the accumulation state of the previous file, kept
StaleAccumState == prev_accum_values

\* line 341: prev_accum_values = {}
FreshAccumState == Empty

\* a timestamp that is None (timestamps are the numbers from 1 on)
NoTimestamp == 0

\* data/metadata.json: absent, unreadable, or as save_metadata wrote it
AbsentMetadata == [state |-> "absent", timestamp |-> NoTimestamp]

CorruptMetadata == [state |-> "corrupt", timestamp |-> NoTimestamp]

SavedMetadata(timestamp) == [state |-> "saved", timestamp |-> timestamp]

\* download_msm.py before its first run: an empty data directory, no
\* metadata file, a server that lists one timestamp
DownloaderInit ==
    /\ dl_pc = "idle"
    /\ data_dir = Empty
    /\ metadata_file = AbsentMetadata
    /\ server = {1}
    /\ existing_timestamp = NoTimestamp
    /\ latest_timestamp = NoTimestamp
    /\ target_pos = 1
    /\ dl_log = <<>>
    /\ dl_runs = 0

FreshWorkers == [w \in 1 .. MAX_WORKERS |-> [task |-> 0, served |-> 0]]

InitWith(nFiles) ==
    /\ pc = "start"
    /\ files \in {[k \in 1 .. n |-> k] : n \in nFiles}
    /\ file_pos = 1
    /\ datasets = <<>>
    /\ steps = <<>>
    /\ step_pos = 1
    /\ fields = Empty
    /\ prev_accum_values = Empty
    /\ all_tasks = <<>>
    /\ frame_counter = 0
    /\ origin = <<>>
    /\ accum_seen = <<>>
    /\ scanned = <<>>
    /\ pool_next = 1
    /\ workers = FreshWorkers
    /\ cache = Empty
    /\ outcomes = Empty
    /\ overtook = {}
    /\ imap_i = 0
    /\ generated_frames = <<>>
    /\ frames_dir = Empty
    /\ DownloaderInit

\* main without the return of line 304: the pool is created for no task
NoFilesStartsPool ==
    /\ pc = "start"
    /\ files = <<>>
    /\ pc' = "pool"
    /\ UNCHANGED <<asmVars, poolVars, dlVars>>

\* lines 301-304: no input file, main returns
NoFiles ==
    /\ pc = "start"
    /\ files = <<>>
    /\ pc' = "done"
    /\ UNCHANGED <<asmVars, poolVars, dlVars>>

\* lines 301-313: the loop over the files begins
StartScan ==
    /\ pc = "start"
    /\ files # <<>>
    /\ pc' = "scan"
    /\ UNCHANGED <<asmVars, poolVars, dlVars>>

\* the exception of open_datasets left uncaught: the run ends
SkipFileAborts ==
    /\ pc = "scan"
    /\ file_pos <= Len(files)
    /\ pc' = "done"
    /\ scanned' = Append(scanned, DecodeError)
    /\ UNCHANGED <<files, file_pos, datasets, steps, step_pos, fields,
                   prev_accum_values, all_tasks, frame_counter, origin,
                   accum_seen, poolVars, dlVars>>

\* lines 316-325, 484-487: open_datasets raises, or returns no dataset;
\* the file is skipped
SkipFile ==
    /\ pc = "scan"
    /\ file_pos <= Len(files)
    /\ \E opened \in {DecodeError, NoDatasets} :
          /\ file_pos' = file_pos + 1
          /\ scanned' = Append(scanned, opened)
          /\ UNCHANGED <<pc, files, datasets, steps, step_pos, fields,
                         prev_accum_values, all_tasks, frame_counter, origin,
                         accum_seen, poolVars, dlVars>>

\* lines 318-341: the file opens into a collection of datasets drawn from
\* Collections; its steps are listed and the accumulation state is created
OpenFile(Collections) ==
    /\ pc = "scan"
    /\ file_pos <= Len(files)
    /\ \E opened \in Collections :
          /\ opened # <<>>
          /\ datasets' = opened
          /\ steps' = StepList(opened)
          /\ step_pos' = 1
          /\ prev_accum_values' = FreshAccumState
          /\ accum_seen' = <<>>
          /\ fields' = Empty
          /\ pc' = "steps"
          /\ UNCHANGED <<files, file_pos, all_tasks, frame_counter, origin,
                         scanned, poolVars, dlVars>>

\* a test that every bundle passes
AlwaysTruthy(plot_data) == TRUE

\* line 474: if plot_data
Truthy(plot_data) == DOMAIN plot_data # {}

\* the raw fields line 436 copies at a step: one <<name, step, raw field>>
\* for every accumulation variable of the bundle
RawOfAccum(plot_data, step, vals) ==
    LET RECURSIVE R(_)
        R(k) == IF k = 0 THEN <<>>
                ELSE IF /\ DisplayOrder[k] \in DOMAIN plot_data
                        /\ get_variable_config[DisplayOrder[k]].is_accum
                     THEN Append(R(k - 1),
                                 <<DisplayOrder[k], step,
                                   vals[plot_data[DisplayOrder[k]].base_var]>>)
                     ELSE R(k - 1)
    IN R(Len(DisplayOrder))

\* lines 343-477: one iteration of the loop over the steps; the fields of
\* the file at this step are drawn from Grids (the exploration stops at
\* MaxTasks tasks)
ProcessStep(Grids) ==
    /\ pc = "steps"
    /\ step_pos <= Len(steps)
    /\ frame_counter < MaxTasks
    /\ LET step == steps[step_pos]
       IN \E vals \in [Readable(datasets, step) -> Grids] :
             LET b == BuildBundle(datasets, step, vals, prev_accum_values)
             IN /\ fields' = vals
                /\ prev_accum_values' = b.prev
                /\ accum_seen' = accum_seen \o RawOfAccum(b.plot_data, step, vals)
                /\ IF Truthy(b.plot_data)
                   THEN /\ all_tasks' =
                              Append(all_tasks,
                                     Task(frame_counter, b.plot_data, step))
                        /\ origin' = Append(origin, <<file_pos, step>>)
                        /\ frame_counter' = frame_counter + 1
                   ELSE UNCHANGED <<all_tasks, origin, frame_counter>>
                /\ step_pos' = step_pos + 1
                /\ UNCHANGED <<pc, files, file_pos, datasets, steps, scanned,
                               poolVars, dlVars>>

\* lines 479-482: the steps are exhausted, the datasets are closed
CloseFile ==
    /\ pc = "steps"
    /\ step_pos > Len(steps)
    /\ pc' = "scan"
    /\ file_pos' = file_pos + 1
    /\ datasets' = <<>>
    /\ fields' = Empty
    /\ scanned' = Append(scanned, "closed")
    /\ UNCHANGED <<files, steps, step_pos, prev_accum_values,
                   all_tasks, frame_counter, origin, accum_seen, poolVars,
                   dlVars>>

\* lines 484-487: an exception raised outside the per-variable try (while
\* building a task or closing a dataset) ends the file
FileError ==
    /\ pc = "steps"
    /\ pc' = "scan"
    /\ file_pos' = file_pos + 1
    /\ datasets' = <<>>
    /\ fields' = Empty
    /\ scanned' = Append(scanned, "failed")
    /\ UNCHANGED <<files, steps, step_pos, prev_accum_values,
                   all_tasks, frame_counter, origin, accum_seen, poolVars,
                   dlVars>>

-----------------------------------------------------------------------------
(* The rendering phase of main (lines 489-499) over multiprocessing.Pool.  *)

\* the names line 176 binds to the four elements of the task tuple
TaskFields == {"frame_idx", "plot_data", "valid_time", "output_path"}

\* line 176: the unpacking of the task tuple succeeds
Unpacks(task_data) == DOMAIN task_data = TaskFields

\* an exception that leaves the function
Raised(exception) == <<"raised", exception>>

Exceptions == {"UnboundLocalError"}

IsRaised(result) == result \in {Raised(e) : e \in Exceptions}

\* lines 175-273: what the worker returns for a task; outcome tells whether
\* the rendering of the task runs through ("ok") or raises ("raise"), the
\* point of the function at which it raises being drawn apart.  When
\* line 176 raises, frame_idx is unbound and the handler's own print (line
\* 270) raises out of the function.
render_frame_task(task_data, outcome) ==
    IF ~Unpacks(task_data) THEN Raised("UnboundLocalError")
    ELSE IF Cardinality(DOMAIN task_data.plot_data) = 0 THEN None
    ELSE IF outcome = "ok" THEN task_data.output_path
    ELSE None

\* line 260: output_path.replace('.png', '_metadata.json'); the third
\* element of a path is its digits, which hold no '.png'
MetadataPath(output_path) ==
    [k \in DOMAIN output_path |->
        IF k # 3 /\ output_path[k] = ".png" THEN "_metadata.json"
        ELSE output_path[k]]

\* one sidecar file for all the frames
WritesOneSidecar(task_data) ==
    {task_data.output_path, <<"output/frames", "metadata.json">>}

\* lines 252, 261-262: the files the rendering of a task writes
Writes(task_data) ==
    {task_data.output_path, MetadataPath(task_data.output_path)}

\* line 260: os.path.basename(output_path)
Basename(output_path) == Tail(output_path)

\* line 259: list(plot_data.keys()), in the order of insertion
Keys(plot_data) == SelectSeq(DisplayOrder, LAMBDA n : n \in DOMAIN plot_data)

\* lines 256-261
Metadata(task_data) ==
    [frame_index |-> task_data.frame_idx,
     valid_time |-> task_data.valid_time,
     variables |-> Keys(task_data.plot_data),
     image_path |-> Basename(task_data.output_path)]

\* line 252: the image file savefig leaves; the figure is titled by the
\* valid time and has one panel per variable
ImageFile(task_data, complete) ==
    [run |-> "this", complete |-> complete,
     content |-> [suptitle |-> task_data.valid_time,
                  panels |-> Keys(task_data.plot_data)]]

\* lines 264-265: the file open(metadata_path, 'w') and json.dump leave
SidecarFile(task_data, complete) ==
    [run |-> "this", complete |-> complete, content |-> Metadata(task_data)]

\* the points at which the rendering of a task raises: before a file is
\* touched (lines 176-252), in savefig after it created the image file (line
\* 252), at the opening of the sidecar (line 264), in json.dump (line 265)
FailurePoints == {"render", "savefig", "open", "dump"}

\* the point a rendering reaches: the end of the function, or one of the
\* failure points explored
PointsOf(outcome, Points) == IF outcome = "ok" THEN {"end"} ELSE Points

\* the sidecar written before the image is saved
FilesWrittenSidecarFirst(task_data, point) ==
    IF ~Unpacks(task_data) \/ DOMAIN task_data.plot_data = {} \/ point = "render"
    THEN Empty
    ELSE LET image == task_data.output_path
             sidecar == MetadataPath(task_data.output_path)
         IN [p \in {image, sidecar} |->
                IF p = image THEN ImageFile(task_data, point # "savefig")
                ELSE SidecarFile(task_data, point # "dump")]

\* lines 176-267: the files one call leaves in FRAMES_DIR when it runs up
\* to the point
FilesWritten(task_data, point) ==
    IF ~Unpacks(task_data) \/ DOMAIN task_data.plot_data = {} \/ point = "render"
    THEN Empty
    ELSE LET image == task_data.output_path
             sidecar == MetadataPath(task_data.output_path)
         IN [p \in IF point \in {"dump", "end"} THEN {image, sidecar}
                    ELSE {image} |->
                IF p = image THEN ImageFile(task_data, point # "savefig")
                ELSE SidecarFile(task_data, point = "end")]

\* the directory after files were written into it (open(..., 'w') and
\* savefig replace a file of the same path)
Overlay(dir, written) ==
    [p \in DOMAIN dir \cup DOMAIN written |->
        IF p \in DOMAIN written THEN written[p] ELSE dir[p]]

\* imap_unordered: any received result can be yielded next
ImapReadyUnordered(c, i) == DOMAIN c

\* line 495: the positions whose result imap can yield next, in the order
\* of the tasks
ImapReady(c, i) == {i + 1} \cap DOMAIN c

\* the loop without its "if result" test
KeepEveryResult(generated, result) == Append(generated, result)

\* lines 496-497
KeepResult(generated, result) ==
    IF result # None THEN Append(generated, result) ELSE generated

\* the pool created between two files
StartPoolEarly ==
    /\ pc = "scan"
    /\ pc' = "pool"
    /\ workers' = FreshWorkers
    /\ pool_next' = 1
    /\ cache' = Empty
    /\ imap_i' = 0
    /\ generated_frames' = <<>>
    /\ UNCHANGED <<asmVars, outcomes, overtook, frames_dir, dlVars>>

\* lines 489-494: every file is scanned, the pool is created
StartPool ==
    /\ pc = "scan"
    /\ file_pos > Len(files)
    /\ pc' = "pool"
    /\ workers' = FreshWorkers
    /\ pool_next' = 1
    /\ cache' = Empty
    /\ imap_i' = 0
    /\ generated_frames' = <<>>
    /\ UNCHANGED <<asmVars, outcomes, overtook, frames_dir, dlVars>>

\* a worker process that is kept for further tasks after its first
IdleReused(w) == workers[w].task = 0

\* a worker process waits for a task
Idle(w) == workers[w].task = 0 /\ workers[w].served < maxtasksperchild

\* a pool that hands a task whose rendering raised to a worker again
WorkerTakeAgain(w) ==
    /\ pc = "pool"
    /\ Idle(w)
    /\ \E t \in ({pool_next} \cap DOMAIN all_tasks)
                   \cup {k \in DOMAIN outcomes : outcomes[k] = "raise"} :
          /\ workers' = [workers EXCEPT ![w].task = t]
          /\ pool_next' = IF t = pool_next THEN pool_next + 1 ELSE pool_next
    /\ UNCHANGED <<pc, asmVars, cache, outcomes, overtook, imap_i,
                   generated_frames, frames_dir, dlVars>>

\* line 495: an idle worker process takes the next task of the queue (idle
\* processes are interchangeable: the first idle slot stands for any)
WorkerTake(w) ==
    /\ pc = "pool"
    /\ Idle(w)
    /\ \A v \in 1 .. w - 1 : ~Idle(v)
    /\ pool_next <= Len(all_tasks)
    /\ workers' = [workers EXCEPT ![w].task = pool_next]
    /\ pool_next' = pool_next + 1
    /\ UNCHANGED <<pc, asmVars, cache, outcomes, overtook, imap_i,
                   generated_frames, frames_dir, dlVars>>

\* lines 152-273: the worker process runs render_frame_task on its task and
\* sends the result back; a rendering that raises does so at one of Points
WorkerFinish(w, Points) ==
    /\ pc = "pool"
    /\ workers[w].task # 0
    /\ \E outcome \in {"ok", "raise"} :
          LET t == workers[w].task
              result == render_frame_task(all_tasks[t], outcome)
          IN /\ \E point \in PointsOf(outcome, Points) :
                   frames_dir' =
                       Overlay(frames_dir, FilesWritten(all_tasks[t], point))
             /\ cache' = [k \in DOMAIN cache \cup {t} |->
                             IF k = t THEN result ELSE cache[k]]
             /\ outcomes' = [k \in DOMAIN outcomes \cup {t} |->
                                IF k = t THEN outcome ELSE outcomes[k]]
             /\ overtook' = IF \E e \in 1 .. t - 1 : e \notin DOMAIN outcomes
                            THEN overtook \cup {t} ELSE overtook
             /\ workers' = [workers EXCEPT ![w] =
                               [task |-> 0, served |-> @.served + 1]]
    /\ UNCHANGED <<pc, asmVars, pool_next, imap_i, generated_frames, dlVars>>

\* line 494: a worker that served maxtasksperchild tasks has exited and the
\* pool replaces it with a new process
ReplaceWorker(w) ==
    /\ pc = "pool"
    /\ workers[w].task = 0
    /\ workers[w].served >= maxtasksperchild
    /\ workers' = [workers EXCEPT ![w] = [task |-> 0, served |-> 0]]
    /\ UNCHANGED <<pc, asmVars, pool_next, cache, outcomes, overtook, imap_i,
                   generated_frames, frames_dir, dlVars>>

\* lines 495-497: one iteration of main's loop over the results; imap
\* re-raises in main the exception a worker raised, which nothing catches
ImapNext ==
    /\ pc = "pool"
    /\ imap_i < Len(all_tasks)
    /\ \E t \in ImapReady(cache, imap_i) :
          IF IsRaised(cache[t])
          THEN /\ pc' = "crashed"
               /\ UNCHANGED <<generated_frames, cache, imap_i>>
          ELSE /\ generated_frames' = KeepResult(generated_frames, cache[t])
               /\ cache' = [k \in DOMAIN cache \ {t} |-> cache[k]]
               /\ imap_i' = imap_i + 1
               /\ pc' = pc
    /\ UNCHANGED <<asmVars, pool_next, workers, outcomes, overtook,
                   frames_dir, dlVars>>

\* line 499 on: every result is consumed, the pool is torn down
PoolExit ==
    /\ pc = "pool"
    /\ imap_i = Len(all_tasks)
    /\ pc' = "done"
    /\ UNCHANGED <<asmVars, poolVars, dlVars>>

-----------------------------------------------------------------------------
(* Inputs of the exploration.                                              *)

StepSets == (SUBSET (1 .. MaxStep)) \ {{}}

\* the datasets whose variables and step types are one of varMaps
DatasetsOf(varMaps) ==
    {[hasStep |-> TRUE, steps |-> s, vars |-> v] : s \in StepSets, v \in varMaps}
        \cup {[hasStep |-> FALSE, steps |-> {}, vars |-> v] : v \in varMaps}

CollectionsOf(D) == UNION {[1 .. n -> D] : n \in 1 .. MaxDatasets}

Grid(values) == [Cells -> values]

\* whole runs of main: files of one dataset holding temperature or
\* precipitation, one grid
MainVarMaps ==
    {[n \in {"t"} |-> "instant"], [n \in {"tp"} |-> "accum"],
     [n \in {"tp"} |-> "instant"]}

MainCollections == [1 .. 1 -> DatasetsOf(MainVarMaps)]

MainGrids == Grid({5})

Init == InitWith(0 .. MaxFiles)

\* the assembly phase of a run that has input files
AssemblyOfFiles(Collections, Grids) ==
    \/ StartScan
    \/ SkipFile
    \/ OpenFile(Collections)
    \/ ProcessStep(Grids)
    \/ CloseFile
    \/ FileError

Assembly(Collections, Grids) ==
    \/ NoFiles
    \/ StartScan
    \/ SkipFile
    \/ OpenFile(Collections)
    \/ ProcessStep(Grids)
    \/ CloseFile
    \/ FileError

RenderingAt(Points) ==
    \/ StartPool
    \/ \E w \in 1 .. MAX_WORKERS : WorkerTake(w)
    \/ \E w \in 1 .. MAX_WORKERS : WorkerFinish(w, Points)
    \/ \E w \in 1 .. MAX_WORKERS : ReplaceWorker(w)
    \/ ImapNext
    \/ PoolExit

\* whole runs: a rendering that raises does so before it touches a file
MainPoints == {"render"}

Rendering == RenderingAt(MainPoints)

Next == Assembly(MainCollections, MainGrids) \/ Rendering

Spec == Init /\ [][Next]_vars

\* the assembly phase of the same runs, up to the creation of the pool
NextAssembly == Assembly(MainCollections, MainGrids)

SpecAssembly == Init /\ [][NextAssembly]_vars

-----------------------------------------------------------------------------
(* The assembly of one file of cumulative precipitation: a dataset of      *)
(* stepType accum holding tp at some steps and, possibly, a dataset of     *)
(* stepType instant holding tp at other steps.                             *)

AccumStepSets == (SUBSET (1 .. AccumSteps)) \ {{}}

PrecipDataset(s, stepType) ==
    [hasStep |-> TRUE, steps |-> s, vars |-> [n \in {"tp"} |-> stepType]]

AccumCollections ==
    {<<PrecipDataset(s, "accum")>> : s \in AccumStepSets}
        \cup {<<PrecipDataset(p[1], "accum"), PrecipDataset(p[2], "instant")>> :
                 p \in {q \in AccumStepSets \X AccumStepSets : q[1] \cap q[2] = {}}}

\* the raw fields: every cell takes each of the values 0, 5 and 12, the
\* cells of one field taking different values
AccumValues == <<0, 5, 12>>

AccumGrids ==
    {[c \in Cells |-> AccumValues[((k + c - 1) % Len(AccumValues)) + 1]] :
        k \in 0 .. Len(AccumValues) - 1}

InitAccum == InitWith({1})

NextAccum == AssemblyOfFiles(AccumCollections, AccumGrids)

SpecAccum == InitAccum /\ [][NextAccum]_vars

-----------------------------------------------------------------------------
(* The assembly of one file whose datasets hold aliases of precipitation   *)
(* (of either stepType) or cloud variables, MaxVars variables at most.     *)

\* the assignments of a step type to one or two of the names
VarMapsOver(names, stepTypes) ==
    UNION {[S -> stepTypes] :
              S \in {T \in SUBSET names : Cardinality(T) \in {1, 2}}}

StepDatasets(varMaps) ==
    {[hasStep |-> TRUE, steps |-> s, vars |-> v] : s \in StepSets, v \in varMaps}

VarCount(dss) ==
    LET RECURSIVE N(_)
        N(k) == IF k = 0 THEN 0 ELSE Cardinality(data_vars(dss[k])) + N(k - 1)
    IN N(Len(dss))

CollectionsWithin(D) == {c \in CollectionsOf(D) : VarCount(c) <= MaxVars}

PrecipCollections ==
    CollectionsWithin(StepDatasets(
        VarMapsOver({"precipitation", "tp", "apcp"}, {"accum", "instant"})))

CloudCollections ==
    CollectionsWithin(StepDatasets(
        VarMapsOver({"tcc", "lcc", "mcc", "hcc"}, {"instant"})))

ResolveCollections == PrecipCollections \cup CloudCollections

\* two fields, each larger than the other in one cell
ResolveGrids ==
    {[c \in Cells |-> IF c = 1 THEN 20 ELSE 50],
     [c \in Cells |-> IF c = 1 THEN 50 ELSE 20]}

InitResolve == InitWith({1})

NextResolve == AssemblyOfFiles(ResolveCollections, ResolveGrids)

SpecResolve == InitResolve /\ [][NextResolve]_vars

-----------------------------------------------------------------------------
(* The rendering phase alone (lines 489-499), applied to a task list whose *)
(* tasks carry the frame indexes 0 .. SchedTasks-1 in any order.           *)

Orderings(S) ==
    {p \in [1 .. Cardinality(S) -> S] :
        \A a, b \in 1 .. Cardinality(S) : a # b => p[a] # p[b]}

SchedPlotData ==
    [n \in {"Temperature"} |-> [values |-> [c \in Cells |-> 5],
                                base_var |-> <<1, "t">>]]

SchedTaskLists ==
    {[k \in DOMAIN p |-> Task(p[k], SchedPlotData, 1)] :
        p \in Orderings(0 .. SchedTasks - 1)}

InitSched ==
    /\ pc = "scan"
    /\ files = <<1>>
    /\ file_pos = 2
    /\ datasets = <<>>
    /\ steps = <<>>
    /\ step_pos = 1
    /\ fields = Empty
    /\ prev_accum_values = Empty
    /\ all_tasks \in SchedTaskLists
    /\ frame_counter = SchedTasks
    /\ origin = [k \in 1 .. SchedTasks |-> <<1, k>>]
    /\ accum_seen = <<>>
    /\ scanned = <<"closed">>
    /\ pool_next = 1
    /\ workers = FreshWorkers
    /\ cache = Empty
    /\ outcomes = Empty
    /\ overtook = {}
    /\ imap_i = 0
    /\ generated_frames = <<>>
    /\ frames_dir = Empty
    /\ DownloaderInit

SpecSched == InitSched /\ [][Rendering]_vars

-----------------------------------------------------------------------------
(* Properties of the rendering phase.                                      *)

TaskPaths == {all_tasks[k].output_path : k \in DOMAIN all_tasks}

\* the frame index of the task that owns an output path
FrameIndexOfPath(path) ==
    all_tasks[CHOOSE k \in DOMAIN all_tasks :
                 all_tasks[k].output_path = path].frame_idx

Ascending(s) == \A a, b \in DOMAIN s : a < b => s[a] < s[b]

\* the positions whose rendering ended with the given outcome
Ended(outcome) == {k \in DOMAIN outcomes : outcomes[k] = outcome}

\* C1: with the tasks submitted in ascending frame_index order, the results
\* main keeps are in ascending frame_index order, whatever the order in
\* which the worker processes complete.
C1_OutputAscending ==
    \A a, b \in DOMAIN generated_frames :
        a < b => /\ {generated_frames[a], generated_frames[b]} \subseteq TaskPaths
                 /\ FrameIndexOfPath(generated_frames[a])
                        < FrameIndexOfPath(generated_frames[b])

\* C1 witness: a later task completed before an earlier one and both
\* results were kept.
C1_Witness ==
    /\ pc = "done"
    /\ overtook # {}
    /\ Len(generated_frames) = 3

\* the position in the task list of the task that owns an output path
PositionOfPath(path) ==
    CHOOSE k \in DOMAIN all_tasks : all_tasks[k].output_path = path

SuccessfulPaths ==
    LET RECURSIVE P(_)
        P(k) == IF k = 0 THEN <<>>
                ELSE IF k \in Ended("ok")
                     THEN Append(P(k - 1), FramePath(all_tasks[k].frame_idx))
                     ELSE P(k - 1)
    IN P(Len(all_tasks))

\* C3: whatever subset of the renderings raises, the loop over the results
\* always goes on to its end, and it then holds exactly the results of the
\* other tasks, each under its original frame_index.
C3_PartialFailure ==
    /\ pc = "pool" => ENABLED Rendering
    /\ pc = "done" /\ files # <<>> =>
          /\ Ended("ok") \cup Ended("raise") = DOMAIN all_tasks
          /\ generated_frames = SuccessfulPaths
          /\ Len(generated_frames) = Len(all_tasks) - Cardinality(Ended("raise"))

\* C3 witness: three tasks, the second raised, the results of 0 and 2 are
\* kept.
C3_Witness ==
    /\ pc = "done"
    /\ Len(all_tasks) = 3
    /\ Ended("raise") = {2}
    /\ generated_frames = <<FramePath(0), FramePath(2)>>

-----------------------------------------------------------------------------
(* Properties of the assembly phase.                                       *)

\* lexicographic order on <<file, step>>
Before(o1, o2) == o1[1] < o2[1] \/ (o1[1] = o2[1] /\ o1[2] < o2[2])

FrameIndexOrder ==
    /\ Len(origin) = Len(all_tasks)
    /\ \A a, b \in DOMAIN all_tasks :
          a < b => /\ all_tasks[a].frame_idx < all_tasks[b].frame_idx
                   /\ Before(origin[a], origin[b])

FrameIndexAssignedOnce ==
    /\ \A k \in DOMAIN all_tasks :
          /\ k \in DOMAIN all_tasks'
          /\ all_tasks'[k].frame_idx = all_tasks[k].frame_idx
    /\ pc \in {"pool", "done"} => all_tasks' = all_tasks

\* C4: the frame_index values of the task list are unique and strictly
\* increasing in (file order, then step order); a task keeps the index it
\* was given when it was appended, and the rendering phase changes no task.
C4_FrameIndexOrder == [] FrameIndexOrder /\ [][FrameIndexAssignedOnce]_vars

\* C4 witness: the run is over with tasks of two files, two of them of the
\* same file.
C4_Witness ==
    /\ pc = "done"
    /\ Len(all_tasks) >= 3
    /\ origin[1][1] # origin[3][1]
    /\ origin[1][1] = origin[2][1]

-----------------------------------------------------------------------------
(* Properties of the accumulation.                                         *)

Precip == "Precipitation"

\* the step being processed by a step of the step loop
StepProcessed == pc = "steps" /\ step_pos' = step_pos + 1

\* a dataset of the open file holds an alias of the display variable with
\* the required stepType at the step
AvailableAt(disp_name, step) ==
    \E d \in DOMAIN datasets :
        \E n \in Range(get_variable_config[disp_name].source_names) :
            /\ n \in DOMAIN datasets[d].vars
            /\ step \in datasets[d].steps
            /\ get_variable_config[disp_name].required_stepType
                  \in {None, datasets[d].vars[n]}

LastTask == all_tasks[Len(all_tasks)]

\* the values of a display variable in the tasks that hold it, at one cell
EmittedAt(disp_name, c) ==
    LET RECURSIVE E(_)
        E(k) == IF k = 0 THEN <<>>
                ELSE IF disp_name \in DOMAIN all_tasks[k].plot_data
                     THEN Append(E(k - 1), all_tasks[k].plot_data[disp_name].values[c])
                     ELSE E(k - 1)
    IN E(Len(all_tasks))

DeltaStep ==
    StepProcessed /\ Precip \in DOMAIN prev_accum_values
                  /\ AvailableAt(Precip, steps[step_pos])
    => /\ Len(all_tasks') = Len(all_tasks) + 1
       /\ Precip \in DOMAIN LastTask'.plot_data
       /\ LET R == fields'[LastTask'.plot_data[Precip].base_var]
              P == prev_accum_values[Precip]
          IN /\ LastTask'.plot_data[Precip].values =
                    [c \in Cells |-> Max(R[c] - P[c], 0)]
             /\ prev_accum_values'[Precip] = R

\* C5: at a non-first occurrence of the accumulation variable in a file,
\* with raw value R and stored raw value P, the emitted value is
\* max(R - P, 0) in every cell and the stored state becomes R.
C5_ClampedDelta == [][DeltaStep]_vars

\* C5 witness: the raw values 0, 5, 5, 12 in the first cell give 0, 5, 0, 7
\* and the raw values 5, 12, 12, 0 in the second cell give 0, 7, 0 and, for
\* the fall from 12 to 0, the clamped 0; the state holds the last raw value.
C5_Witness ==
    /\ EmittedAt(Precip, 1) = <<0, 5, 0, 7>>
    /\ EmittedAt(Precip, 2) = <<0, 7, 0, 0>>
    /\ Precip \in DOMAIN prev_accum_values
    /\ prev_accum_values[Precip] = <<12, 0>>

FirstStep ==
    StepProcessed /\ Precip \notin DOMAIN prev_accum_values
                  /\ AvailableAt(Precip, steps[step_pos])
    => /\ Len(all_tasks') = Len(all_tasks) + 1
       /\ Precip \in DOMAIN LastTask'.plot_data
       /\ LastTask'.plot_data[Precip].values = [c \in Cells |-> 0]
       /\ Precip \in DOMAIN prev_accum_values'
       /\ prev_accum_values'[Precip] =
             fields'[LastTask'.plot_data[Precip].base_var]

\* C7: at the first occurrence of the accumulation variable in a file, with
\* raw value R, the bundle of the step holds the variable with a zero field
\* and the accumulation state becomes R.
C7_FirstOccurrenceZero == [][FirstStep]_vars

\* C7 witness: the first occurrence, at the second step of the file, has
\* the raw value 12, 0; the bundle holds zeros and the state holds 12, 0.
C7_Witness ==
    /\ pc = "steps"
    /\ step_pos = 3
    /\ ~AvailableAt(Precip, 1)
    /\ Len(all_tasks) = 1
    /\ Precip \in DOMAIN all_tasks[1].plot_data
    /\ all_tasks[1].plot_data[Precip].values = <<0, 0>>
    /\ prev_accum_values = [n \in {Precip} |-> <<12, 0>>]

StateOfOpenFile ==
    pc = "steps" =>
        \A n \in DOMAIN prev_accum_values :
            \E k \in 1 .. step_pos - 1 : AvailableAt(n, steps[k])

FirstInFileStep ==
    StepProcessed /\ AvailableAt(Precip, steps[step_pos])
                  /\ (\A k \in 1 .. step_pos - 1 : ~AvailableAt(Precip, steps[k]))
    => /\ Len(all_tasks') = Len(all_tasks) + 1
       /\ Precip \in DOMAIN LastTask'.plot_data
       /\ LastTask'.plot_data[Precip].values = [c \in Cells |-> 0]

\* C6: the accumulation state belongs to the open file: it holds a variable
\* only if a step of this file already processed had it, so it is empty
\* when the first step of a file is processed, and the first step of a file
\* that has the accumulation variable emits it as a first occurrence,
\* whatever the files before recorded and however they ended.
C6_StatePerFile == [] StateOfOpenFile /\ [][FirstInFileStep]_vars

\* C6 witness: the first file recorded precipitation; the second file is
\* open, its first occurrence of precipitation is emitted as zeros.
C6_Witness ==
    /\ pc = "steps"
    /\ file_pos = 2
    /\ step_pos = 2
    /\ Len(all_tasks) >= 2
    /\ origin[1][1] = 1
    /\ Precip \in DOMAIN all_tasks[1].plot_data
    /\ origin[Len(all_tasks)] = <<2, steps[1]>>
    /\ Precip \in DOMAIN LastTask.plot_data
    /\ LastTask.plot_data[Precip].values = [c \in Cells |-> 0]
    /\ Precip \in DOMAIN prev_accum_values
    /\ prev_accum_values[Precip] = [c \in Cells |-> 5]

-----------------------------------------------------------------------------
(* Properties of the resolution.                                           *)

\* the bundle of the step processed by a step of the step loop
NewBundle ==
    IF Len(all_tasks') > Len(all_tasks) THEN LastTask'.plot_data ELSE Empty

\* a dataset of the open file holds the variable and has the step
HasAt(d, n, step) ==
    n \in DOMAIN datasets[d].vars /\ step \in datasets[d].steps

\* ... and the variable has the stepType the display variable requires
MatchesAt(disp_name, d, n, step) ==
    /\ HasAt(d, n, step)
    /\ get_variable_config[disp_name].required_stepType
          \in {None, datasets[d].vars[n]}

AliasTieBreakStep ==
    LET cfg == get_variable_config[Precip]
        a == cfg.source_names[1]
        b == cfg.source_names[2]
        step == steps[step_pos]
    IN StepProcessed
       /\ (\A d \in DOMAIN datasets :
              a \in DOMAIN datasets[d].vars =>
                  datasets[d].vars[a] # cfg.required_stepType)
       /\ (\E d, e \in DOMAIN datasets :
              d # e /\ HasAt(d, a, step) /\ MatchesAt(Precip, e, b, step))
       => /\ Precip \in DOMAIN NewBundle
          /\ NewBundle[Precip].base_var[2] = b

\* C8: when the first alias is present only with a stepType other than the
\* required one and the second alias is present with the required stepType
\* in a different dataset, both at the step, the second alias is selected,
\* for every order of the datasets.
C8_AliasTieBreak == [][AliasTieBreakStep]_vars

StandardNames == {"Temperature", "Pressure", "Humidity", "Precipitation"}

\* the <<alias index, dataset index>> combinations that satisfy
\* has-variable, has-step and flow-type match
Combinations(disp_name, step) ==
    {p \in (DOMAIN get_variable_config[disp_name].source_names)
              \X (DOMAIN datasets) :
        MatchesAt(disp_name, p[2],
                  get_variable_config[disp_name].source_names[p[1]], step)}

\* the combination of the highest-priority alias and, for it, of the
\* earliest dataset
BestCombination(S) ==
    CHOOSE p \in S : \A q \in S : p[1] < q[1] \/ (p[1] = q[1] /\ p[2] <= q[2])

AliasOuterStep ==
    StepProcessed =>
        \A disp_name \in StandardNames :
            LET S == Combinations(disp_name, steps[step_pos])
                names == get_variable_config[disp_name].source_names
            IN S # {} =>
                  /\ disp_name \in DOMAIN NewBundle
                  /\ NewBundle[disp_name].base_var =
                        <<BestCombination(S)[2], names[BestCombination(S)[1]]>>

\* C9: among the (alias, dataset) combinations that satisfy has-variable,
\* has-step and flow-type match, the one selected has the highest-priority
\* alias and, for that alias, the earliest dataset.
C9_AliasOuterOrder == [][AliasOuterStep]_vars

Cloud == "Cloud Cover"

\* the <<dataset, layer>> pairs available at a step
LayersAt(step) ==
    {p \in (DOMAIN datasets) \X Range(CloudLayerNames) : HasAt(p[1], p[2], step)}

LayerMaximumStep ==
    LET step == steps[step_pos]
        L == LayersAt(step)
    IN StepProcessed
       /\ (\A d \in DOMAIN datasets : ~HasAt(d, "tcc", step))
       /\ L # {}
       => /\ Cloud \in DOMAIN NewBundle
          /\ \A c \in Cells :
                /\ \E p \in L : NewBundle[Cloud].values[c] = fields'[p][c]
                /\ \A p \in L : NewBundle[Cloud].values[c] >= fields'[p][c]

\* C10: when the pre-combined cloud variable is absent and some of the
\* layers lcc, mcc, hcc are available at the step, Cloud Cover is the
\* elementwise maximum over exactly the available layers.
C10_LayerMaximum == [][LayerMaximumStep]_vars

PreCombined == "tcc"

PreCombinedFirstStep ==
    LET step == steps[step_pos]
    IN StepProcessed /\ (\E d \in DOMAIN datasets : HasAt(d, PreCombined, step))
       => /\ Cloud \in DOMAIN NewBundle
          /\ NewBundle[Cloud].base_var[2] = PreCombined
          /\ NewBundle[Cloud].values = fields'[NewBundle[Cloud].base_var]

\* C11: whenever the pre-combined variable tcc is available at the step in
\* some dataset of the collection, Cloud Cover is the field of tcc, whichever
\* layers exist and wherever they are.
C11_PreCombinedFirst == [][PreCombinedFirstStep]_vars

-----------------------------------------------------------------------------
(* The assembly of one file whose datasets hold wind components (complete *)
(* and incomplete pairs, a pair next to cumulative precipitation),         *)
(* precipitation of stepType instant or the pre-combined cloud cover.      *)

Instant(names) == [n \in names |-> "instant"]

BundleVarMaps ==
    {Instant({"u10", "v10"}), Instant({"u", "v"}), Instant({"u10", "v"}),
     [n \in {"u10", "v10", "tp"} |-> IF n = "tp" THEN "accum" ELSE "instant"],
     Instant({"tcc"}), Instant({"tp"})}

\* a dataset without a step coordinate
NoStepDataset(v) == [hasStep |-> FALSE, steps |-> {}, vars |-> v]

BundleCollections ==
    CollectionsOf(StepDatasets(BundleVarMaps)
                      \cup {NoStepDataset(Instant({"u10", "v10"}))})

\* one field: the components 3 and 4 give the speeds 4 and 5
BundleGrids == {[c \in Cells |-> IF c = 1 THEN 3 ELSE 4]}

InitBundle == InitWith({1})

NextBundle == AssemblyOfFiles(BundleCollections, BundleGrids)

SpecBundle == InitBundle /\ [][NextBundle]_vars

-----------------------------------------------------------------------------
(* Properties of the bundle of a step.                                     *)

Wind == "Wind Speed"

\* the dataset holds a complete component pair and has the step
PairAt(d, step) ==
    \/ HasAt(d, "u10", step) /\ HasAt(d, "v10", step)
    \/ HasAt(d, "u", step) /\ HasAt(d, "v", step)

\* the step loop is at a step at which no dataset provides a complete pair
NoPairAtStep ==
    /\ pc = "steps"
    /\ step_pos <= Len(steps)
    /\ \A d \in DOMAIN datasets : ~PairAt(d, steps[step_pos])

\* the step loop moves on to the next step of the file
StepCompletes == pc' = "steps" /\ step_pos' = step_pos + 1

WindOmissionStep ==
    NoPairAtStep /\ StepCompletes
    => /\ Wind \notin DOMAIN NewBundle
       /\ \A disp_name \in StandardNames \cup {Cloud} :
             AvailableAt(disp_name, steps[step_pos])
                 => disp_name \in DOMAIN NewBundle

\* C12: at a step at which no dataset provides a complete wind component
\* pair, the step is processed without an error, Wind Speed is absent from
\* its bundle and every other variable available at the step is in it.
C12_WindOmission ==
    /\ [](NoPairAtStep /\ frame_counter < MaxTasks => ENABLED StepCompletes)
    /\ [][WindOmissionStep]_vars

\* C12 witness: the only complete pair is in a dataset that lacks step 1;
\* the bundle of step 1 holds the cloud cover, resolved after the wind, alone.
C12_Witness ==
    /\ pc = "steps"
    /\ step_pos = 2
    /\ datasets = <<[hasStep |-> TRUE, steps |-> {2},
                     vars |-> Instant({"u10", "v10"})],
                    [hasStep |-> TRUE, steps |-> {1, 2},
                     vars |-> Instant({"tcc"})]>>
    /\ Len(all_tasks) = 1
    /\ DOMAIN all_tasks[1].plot_data = {Cloud}

-----------------------------------------------------------------------------
(* The rendering phase alone applied to task lists whose payloads are      *)
(* task tuples or tuples that lack their last element.                      *)

PayloadTasks == 3

\* the tuple without its output path
Truncated(task_data) ==
    [f \in TaskFields \ {"output_path"} |-> task_data[f]]

PayloadLists ==
    {[k \in 1 .. n |->
         IF k \in M THEN Truncated(Task(k - 1, SchedPlotData, 1))
         ELSE Task(k - 1, SchedPlotData, 1)] :
        n \in 1 .. PayloadTasks, M \in SUBSET (1 .. PayloadTasks)}

InitPayload ==
    /\ pc = "scan"
    /\ files = <<1>>
    /\ file_pos = 2
    /\ datasets = <<>>
    /\ steps = <<>>
    /\ step_pos = 1
    /\ fields = Empty
    /\ prev_accum_values = Empty
    /\ all_tasks \in PayloadLists
    /\ frame_counter = Len(all_tasks)
    /\ origin = [k \in DOMAIN all_tasks |-> <<1, k>>]
    /\ accum_seen = <<>>
    /\ scanned = <<"closed">>
    /\ pool_next = 1
    /\ workers = FreshWorkers
    /\ cache = Empty
    /\ outcomes = Empty
    /\ overtook = {}
    /\ imap_i = 0
    /\ generated_frames = <<>>
    /\ frames_dir = Empty
    /\ DownloaderInit

SpecPayload == InitPayload /\ [][Rendering]_vars

\* the rendering of the task failed at some step of the function
Failed(t) == outcomes[t] = "raise" \/ ~Unpacks(all_tasks[t])

-----------------------------------------------------------------------------
(* Properties of the worker processes.                                     *)

\* the tasks handed to a worker process whose rendering has not ended
Running == {t \in 1 .. pool_next - 1 : t \notin DOMAIN outcomes}

\* no process has run two tasks, a process running a task has run none
\* before, and the tasks being rendered are no more than the pool size
OneTaskPerProcess ==
    /\ \A w \in DOMAIN workers :
          /\ workers[w].served <= 1
          /\ workers[w].task # 0 => workers[w].served = 0
    /\ Cardinality(Running) <= Max(1, CpuCount - 1)
    /\ Running = {workers[w].task : w \in DOMAIN workers} \ {0}

\* a process that has run a task gets no task; it leaves its slot to a
\* process that has run none
DiscardedAfterTask ==
    \A w \in DOMAIN workers :
        workers[w].served = 1 =>
            \/ workers'[w] = workers[w]
            \/ workers'[w] = [task |-> 0, served |-> 0]

\* C14: every worker process runs one task at most once and is discarded
\* after it, and at most MAX_WORKERS = max(1, cpu_count - 1) tasks are being
\* rendered at any moment.
C14_BoundedLifetime == [] OneTaskPerProcess /\ [][DiscardedAfterTask]_vars

\* C14 witness: the first task has ended and its process was replaced; the
\* second and the third task are being rendered by processes that have run
\* no task before.
C14_Witness ==
    /\ pc = "pool"
    /\ DOMAIN outcomes = {1}
    /\ Running = {2, 3}
    /\ \A w \in DOMAIN workers : workers[w].served = 0

-----------------------------------------------------------------------------
(* Properties of the files written.                                        *)

\* frame indexes around the widths of the zero-padded number
SampleIndexes == {0, 1, 9, 10, 999, 1000, 9999, 10000, 10001}

NoSharedPath ==
    /\ \A j, k \in DOMAIN all_tasks :
          j # k => Writes(all_tasks[j]) \cap Writes(all_tasks[k]) = {}
    /\ \A k \in DOMAIN all_tasks :
          /\ all_tasks[k].output_path = FramePath(all_tasks[k].frame_idx)
          /\ MetadataPath(all_tasks[k].output_path)
                 # all_tasks[k].output_path

PathsInjective ==
    \A a, b \in SampleIndexes :
        a # b => {FramePath(a), MetadataPath(FramePath(a))}
                    \cap {FramePath(b), MetadataPath(FramePath(b))} = {}

\* C15: no two tasks of a run (hence no two workers running together)
\* write the same image path or the same sidecar path; both paths are
\* derived from the frame index of the task, different indexes giving
\* different paths.
C15_NoWriteCollision == NoSharedPath /\ PathsInjective

\* C15 witness: two tasks made from the same step of two files are being
\* rendered together.
C15_Witness ==
    /\ pc = "pool"
    /\ Running = {1, 2}
    /\ origin[1][1] # origin[2][1]
    /\ origin[1][2] = origin[2][2]
    /\ Writes(all_tasks[1]) =
          {<<"output/frames", "frame_", <<0, 0, 0, 0>>, ".png">>,
           <<"output/frames", "frame_", <<0, 0, 0, 0>>, "_metadata.json">>}

-----------------------------------------------------------------------------
(* Properties of the task list.                                            *)

\* the dataset holds a complete component pair
HoldsPair(d) ==
    \/ {"u10", "v10"} \subseteq DOMAIN datasets[d].vars
    \/ {"u", "v"} \subseteq DOMAIN datasets[d].vars

\* the first dataset holding a complete pair has the step
WindAvailableAt(step) ==
    \E d \in DOMAIN datasets :
        /\ HoldsPair(d)
        /\ \A e \in 1 .. d - 1 : ~HoldsPair(e)
        /\ step \in datasets[d].steps

\* the display variables the open file can give at the step
AvailableNames(step) ==
    {n \in StandardNames \cup {Cloud} : AvailableAt(n, step)}
        \cup (IF WindAvailableAt(step) THEN {Wind} ELSE {})

DenseFrameIndexes ==
    /\ frame_counter = Len(all_tasks)
    /\ \A k \in DOMAIN all_tasks :
          /\ all_tasks[k].frame_idx = k - 1
          /\ DOMAIN all_tasks[k].plot_data # {}

OneTaskPerBundle ==
    /\ StepProcessed /\ AvailableNames(steps[step_pos]) = {}
          => UNCHANGED <<all_tasks, frame_counter>>
    /\ StepProcessed /\ AvailableNames(steps[step_pos]) # {}
          => /\ Len(all_tasks') = Len(all_tasks) + 1
             /\ frame_counter' = frame_counter + 1
             /\ DOMAIN LastTask'.plot_data = AvailableNames(steps[step_pos])
             /\ \A k \in DOMAIN all_tasks : all_tasks'[k] = all_tasks[k]
    /\ ~StepProcessed => UNCHANGED <<all_tasks, frame_counter>>

\* C16: a step whose bundle is empty produces no task and consumes no frame
\* index, a step whose bundle is not empty produces exactly one task; the
\* frame indexes of the task list are 0 .. n-1 without a gap and no task
\* holds an empty bundle, whatever files were scanned and however each
\* ended.
C16_DenseTaskList == [] DenseFrameIndexes /\ [][OneTaskPerBundle]_vars

\* C16 witness: the first file was closed after steps that gave no task,
\* the second failed after its first task, the third step of the run gave
\* the frame index 0 and the loop over the files is over.
C16_Witness ==
    /\ pc = "scan"
    /\ file_pos = Len(files) + 1
    /\ scanned = <<"closed", "failed">>
    /\ Len(all_tasks) = 1
    /\ origin[1][1] = 2
    /\ all_tasks[1].frame_idx = 0

\* the step loop is at a step of the open file
AtStep == pc = "steps" /\ step_pos <= Len(steps)

\* the bundle holds the variables available at the step, each one read
\* from the place its own resolution finds, and no other
MissOmittedStep ==
    StepProcessed =>
        /\ DOMAIN NewBundle = AvailableNames(steps[step_pos])
        /\ \A n \in DOMAIN NewBundle :
              NewBundle[n].base_var =
                  Resolve(n, datasets, steps[step_pos], fields').base_var
        /\ UNCHANGED <<datasets, steps, file_pos, scanned>>

\* C17: a variable that cannot be resolved at a step is absent from the
\* bundle of the step; the step is processed all the same, the file stays
\* open, and every other variable is in the bundle exactly when it can be
\* resolved itself.
C17_MissOmitted ==
    /\ [](AtStep /\ frame_counter < MaxTasks => ENABLED StepCompletes)
    /\ [][MissOmittedStep]_vars

\* C17 witness: precipitation is held with the stepType instant only and
\* is not resolved, as are four other variables; the cloud cover, last in
\* the order, is in the bundle of the step.
C17_Witness ==
    /\ pc = "steps"
    /\ step_pos = 2
    /\ datasets = <<[hasStep |-> TRUE, steps |-> {1},
                     vars |-> Instant({"tp"})],
                    [hasStep |-> TRUE, steps |-> {1},
                     vars |-> Instant({"tcc"})]>>
    /\ Len(all_tasks) = 1
    /\ DOMAIN all_tasks[1].plot_data = {Cloud}
    /\ prev_accum_values = Empty

-----------------------------------------------------------------------------
(* Properties of the loop over the files.                                  *)

\* the tasks made from a file
TasksOf(f) == {k \in DOMAIN all_tasks : origin[k][1] = f}

\* the scan of a file has just ended with a raising open_datasets
OpenRaised ==
    /\ Len(scanned') = Len(scanned) + 1
    /\ scanned'[Len(scanned')] = DecodeError

\* every file before the current one was scanned once, in order; a file
\* whose opening raised gave no task; the pool starts after the last file
ScannedOnce ==
    /\ pc \in {"scan", "steps"} => Len(scanned) = file_pos - 1
    /\ pc \in {"pool", "done", "crashed"} /\ files # <<>>
          => Len(scanned) = Len(files)
    /\ \A f \in DOMAIN scanned : scanned[f] = DecodeError => TasksOf(f) = {}
    /\ pc = "scan" =>
          ENABLED (SkipFile \/ OpenFile(MainCollections) \/ StartPool)
    /\ pc = "done" /\ files # <<>> => imap_i = Len(all_tasks)

RaisedFileSkipped ==
    /\ OpenRaised =>
          /\ pc = "scan" /\ pc' = "scan"
          /\ file_pos' = file_pos + 1
          /\ UNCHANGED <<all_tasks, frame_counter, prev_accum_values>>
    /\ file_pos' \in {file_pos, file_pos + 1}

\* C18: when the opening of a file raises, the file is skipped without a
\* task, it is not opened again, every later file is scanned and the run
\* goes on to render the tasks of the other files.
C18_FileFailureIsolated == [] ScannedOnce /\ [][RaisedFileSkipped]_vars

\* C18 witness: the opening of the first file raised, the second file was
\* closed after giving tasks, and the run ended with their frames.
C18_Witness ==
    /\ pc = "done"
    /\ scanned = <<DecodeError, "closed">>
    /\ TasksOf(2) = DOMAIN all_tasks
    /\ Len(all_tasks) = 2
    /\ generated_frames = <<FramePath(0), FramePath(1)>>

\* the scan of a file has just ended with an empty list of datasets
OpenedEmpty ==
    /\ Len(scanned') = Len(scanned) + 1
    /\ scanned'[Len(scanned')] = NoDatasets

\* without input files main returns at once: nothing is scanned, there is
\* no task, no pool, no worker at work and no result
NoInputAborts ==
    files = <<>> =>
        /\ pc \in {"start", "done"}
        /\ pc = "start" => ENABLED NoFiles
        /\ scanned = <<>> /\ all_tasks = <<>> /\ frame_counter = 0
        /\ pool_next = 1 /\ Running = {} /\ outcomes = Empty
        /\ cache = Empty /\ generated_frames = <<>>

\* a file without datasets has no task, and the scan goes on after it
EmptyFileSkipped ==
    /\ \A f \in DOMAIN scanned : scanned[f] = NoDatasets => TasksOf(f) = {}
    /\ Len(scanned) > 0 /\ scanned[Len(scanned)] = NoDatasets /\ pc = "scan"
          => /\ file_pos = Len(scanned) + 1
             /\ ENABLED (IF file_pos <= Len(files)
                          THEN OpenFile(MainCollections) ELSE StartPool)

EmptyFileStep ==
    OpenedEmpty =>
        /\ pc = "scan" /\ pc' = "scan"
        /\ file_pos' = file_pos + 1
        /\ UNCHANGED <<all_tasks, frame_counter>>

\* C19: without input files the run ends before any assembly and any
\* parallel work; a file that yields no dataset ends alone, without a task
\* and without a frame index, and the next file is scanned.
C19_TotalAbsence ==
    [] (NoInputAborts /\ EmptyFileSkipped) /\ [][EmptyFileStep]_vars

\* C19 witness: the first file yielded no dataset, the second gave the
\* frame index 0 and the run ended with its frame.
C19_Witness ==
    /\ pc = "done"
    /\ scanned = <<NoDatasets, "closed">>
    /\ Len(all_tasks) = 1
    /\ origin[1][1] = 2
    /\ generated_frames = <<FramePath(0)>>

-----------------------------------------------------------------------------
(* Properties of the two phases.                                           *)

\* no task has been handed to a worker process and nothing came back
NothingSubmitted ==
    /\ pool_next = 1
    /\ \A w \in DOMAIN workers : workers[w] = [task |-> 0, served |-> 0]
    /\ outcomes = Empty /\ cache = Empty
    /\ imap_i = 0 /\ generated_frames = <<>>

AssemblyBeforeRendering ==
    /\ pc \in {"start", "scan", "steps"} => NothingSubmitted
    /\ ~NothingSubmitted =>
          /\ pc \in {"pool", "done"}
          /\ Len(scanned) = Len(files)
          /\ file_pos = Len(files) + 1
          /\ datasets = <<>>

\* the accumulation state, the task list and the counter change in the
\* assembly only; the steps of the pool and of its worker processes leave
\* them as they are
AssemblyStateStep ==
    /\ prev_accum_values' # prev_accum_values
          => pc' = "steps" /\ pc \in {"scan", "steps"}
    /\ pc \in {"pool", "done"}
          => UNCHANGED <<prev_accum_values, all_tasks, frame_counter,
                         datasets, steps, fields, scanned>>

\* C20: no task is handed to a worker process before the resolution, the
\* accumulation and the normalization are over for every file, and the
\* accumulation state is read and written by the assembly alone.
C20_PhaseOrdering == [] AssemblyBeforeRendering /\ [][AssemblyStateStep]_vars

\* C20 witness: two files were closed, the second left an accumulation
\* state, and the first two tasks are being rendered.
C20_Witness ==
    /\ pc = "pool"
    /\ scanned = <<"closed", "closed">>
    /\ Precip \in DOMAIN prev_accum_values
    /\ Running = {1, 2}

-----------------------------------------------------------------------------
(* Properties of the failures: nothing is tried twice.                     *)

\* the tasks handed to a worker process so far are the first pool_next - 1
\* of the list, each one running or ended; when the run is over every task
\* was handed out and has ended
HandedInOrder ==
    /\ pool_next \in 1 .. Len(all_tasks) + 1
    /\ DOMAIN outcomes \cup Running = 1 .. pool_next - 1
    /\ DOMAIN outcomes \cap {workers[w].task : w \in DOMAIN workers} = {}
    /\ \A v, w \in DOMAIN workers :
          v # w /\ workers[v].task # 0 => workers[v].task # workers[w].task
    /\ pc = "done" /\ files # <<>> =>
          /\ pool_next = Len(all_tasks) + 1
          /\ DOMAIN outcomes = DOMAIN all_tasks

\* a worker process that gets a task gets the next one of the queue, which
\* no process had before; the queue never moves back; the outcome of a
\* rendering is final
HandedOnceStep ==
    /\ \A w \in DOMAIN workers :
          workers'[w].task # 0 /\ workers'[w].task # workers[w].task
              => /\ workers'[w].task = pool_next
                 /\ pool_next' = pool_next + 1
                 /\ pool_next \notin DOMAIN outcomes \cup Running
    /\ pool_next' \in {pool_next, pool_next + 1}
    /\ \A t \in DOMAIN outcomes :
          t \in DOMAIN outcomes' /\ outcomes'[t] = outcomes[t]

\* the scan of the files moves forward: a file that was scanned keeps the
\* way it ended and is not opened again
ScannedOnceStep ==
    /\ file_pos' \in {file_pos, file_pos + 1}
    /\ Len(scanned') \in {Len(scanned), Len(scanned) + 1}
    /\ \A f \in DOMAIN scanned : scanned'[f] = scanned[f]
    /\ Len(scanned') = Len(scanned) + 1 => file_pos' = file_pos + 1
    /\ pc = "scan" /\ pc' = "steps" => file_pos = Len(scanned) + 1

\* C21: every task of the task list is handed to a worker process at most
\* once, and exactly once when the run goes to its end; a task whose
\* rendering failed is not submitted again, and a file whose decoding failed
\* is not opened again.
C21_NoRetries ==
    [] HandedInOrder /\ [][HandedOnceStep /\ ScannedOnceStep]_vars

\* C21 witness: the decoding of the first file failed, the second file gave
\* two tasks, the rendering of the first raised, and the run ended with the
\* frame of the second alone.
C21_Witness ==
    /\ pc = "done"
    /\ scanned = <<DecodeError, "closed">>
    /\ Len(all_tasks) = 2
    /\ outcomes = <<"raise", "ok">>
    /\ pool_next = 3
    /\ generated_frames = <<FramePath(1)>>

-----------------------------------------------------------------------------
(* The rendering phase alone applied to the task lists main builds, with   *)
(* every failure point of render_frame_task, in a frames directory that    *)
(* holds the files of an earlier run.                                      *)

FrameTasks == 2     \* tasks of the run

\* the tasks of a run of n frames
FrameTaskList(n) == [k \in 1 .. n |-> Task(k - 1, SchedPlotData, k)]

\* a file as an earlier run left it
Earlier(file) == [file EXCEPT !.run = "earlier"]

\* FRAMES_DIR after an earlier run that rendered m frames
EarlierRun(m) ==
    LET RECURSIVE F(_)
        F(k) == IF k = 0 THEN Empty
                ELSE LET written == FilesWritten(FrameTaskList(m)[k], "end")
                     IN Overlay(F(k - 1),
                                [p \in DOMAIN written |-> Earlier(written[p])])
    IN F(m)

InitFrames ==
    /\ pc = "scan"
    /\ files = <<1>>
    /\ file_pos = 2
    /\ datasets = <<>>
    /\ steps = <<>>
    /\ step_pos = 1
    /\ fields = Empty
    /\ prev_accum_values = Empty
    /\ all_tasks \in {FrameTaskList(n) : n \in 1 .. FrameTasks}
    /\ frame_counter = Len(all_tasks)
    /\ origin = [k \in DOMAIN all_tasks |-> <<1, k>>]
    /\ accum_seen = <<>>
    /\ scanned = <<"closed">>
    /\ pool_next = 1
    /\ workers = FreshWorkers
    /\ cache = Empty
    /\ outcomes = Empty
    /\ overtook = {}
    /\ imap_i = 0
    /\ generated_frames = <<>>
    /\ frames_dir \in {EarlierRun(m) : m \in 0 .. FrameTasks + 1}
    /\ DownloaderInit

NextFrames == RenderingAt(FailurePoints)

SpecFrames == InitFrames /\ [][NextFrames]_vars

\* the number a sequence of decimal digits writes
Number(digits) ==
    LET RECURSIVE N(_)
        N(k) == IF k = 0 THEN 0 ELSE 10 * N(k - 1) + digits[k]
    IN N(Len(digits))

\* the frame index encoded in the name of an image file
IndexInName(path) == Number(path[3])

IsSidecar(path) == path[Len(path)] = "_metadata.json"

\* the image a sidecar path stands next to
ImageOf(path) == [path EXCEPT ![Len(path)] = ".png"]

\* the tasks whose rendering returned a result the loop of main keeps
Succeeded ==
    {t \in DOMAIN outcomes :
        KeepResult(<<>>, render_frame_task(all_tasks[t], outcomes[t]))
            = <<all_tasks[t].output_path>>}

\* a complete file of the path was written in this run
WrittenNow(path) ==
    /\ path \in DOMAIN frames_dir
    /\ frames_dir[path].run = "this"
    /\ frames_dir[path].complete

SuccessHasBothFiles ==
    \A t \in Succeeded :
        LET image == all_tasks[t].output_path
            sidecar == MetadataPath(image)
        IN /\ image = FramePath(all_tasks[t].frame_idx)
           /\ image # sidecar
           /\ WrittenNow(image)
           /\ WrittenNow(sidecar)
           /\ frames_dir[sidecar].content.frame_index = IndexInName(image)
           /\ frames_dir[sidecar].content.image_path = Basename(image)

SidecarAfterImage ==
    \A path \in DOMAIN frames_dir :
        IsSidecar(path) /\ frames_dir[path].run = "this"
            => WrittenNow(ImageOf(path))

\* the zero-padded number of a file name reads back as the frame index
NameEncodesIndex == \A n \in SampleIndexes : IndexInName(FramePath(n)) = n

\* C22: for every task that reports success, the image file named with the
\* zero-padded frame index and its sidecar both exist, the frame_index of
\* the sidecar is the index of the file name and its image_path names the
\* image; no sidecar is written in a run for a task whose image was not
\* written in that run.
C22_ArtifactConsistency ==
    SuccessHasBothFiles /\ SidecarAfterImage /\ NameEncodesIndex

\* C22 witness: the first task succeeded and has both files; the second
\* raised at the opening of its sidecar: its image is of this run and the
\* sidecar of its path is the one an earlier run left.
C22_Witness ==
    /\ pc = "done"
    /\ outcomes = <<"ok", "raise">>
    /\ generated_frames = <<FramePath(0)>>
    /\ WrittenNow(MetadataPath(FramePath(0)))
    /\ WrittenNow(FramePath(1))
    /\ MetadataPath(FramePath(1)) \in DOMAIN frames_dir
    /\ frames_dir[MetadataPath(FramePath(1))].run = "earlier"

-----------------------------------------------------------------------------
(* Properties of the step list.                                            *)

\* the steps declared by the datasets of the open file that have a step
\* coordinate
DeclaredSteps ==
    {s \in 0 .. MaxStep :
        \E d \in DOMAIN datasets : datasets[d].hasStep /\ s \in datasets[d].steps}

\* the step list of the open file holds the declared steps, each once, in
\* strictly ascending order, or the default step alone
StepListIsSortedUnion ==
    pc = "steps" =>
        /\ Ascending(steps)
        /\ Len(steps) = Cardinality(Range(steps))
        /\ DeclaredSteps # {} => Range(steps) = DeclaredSteps
        /\ DeclaredSteps = {} => steps = <<0>>

\* the steps are processed in the order of the list, one after the other
StepsInListOrder ==
    /\ StepProcessed => /\ step_pos \in DOMAIN steps
                        /\ UNCHANGED steps
    /\ pc = "steps" /\ pc' = "steps" => step_pos' = step_pos + 1
    /\ pc = "scan" /\ pc' = "steps" => step_pos' = 1

\* C23: the step list processed for a file is the set union of the steps
\* declared by the datasets that have a step dimension, in strictly
\* ascending order and without duplicates; when no dataset declares steps it
\* is the single default step 0.
C23_StepEnumerator == [] StepListIsSortedUnion /\ [][StepsInListOrder]_vars

\* C23 witness: the first dataset declares the step 2, the second the steps
\* 1 and 2; both steps were processed, 1 before 2.
C23_Witness ==
    /\ pc = "steps"
    /\ Len(datasets) = 2
    /\ datasets[1].steps = {2}
    /\ datasets[2].steps = {1, 2}
    /\ steps = <<1, 2>>
    /\ step_pos = 3
    /\ Len(origin) = 2
    /\ origin[1][2] = 1 /\ origin[2][2] = 2

\* the default step of a file whose datasets declare no step
C23_WitnessDefault ==
    /\ pc = "steps"
    /\ \A d \in DOMAIN datasets : ~datasets[d].hasStep
    /\ steps = <<0>>
    /\ step_pos = 2

-----------------------------------------------------------------------------
(* The assembly of one file holding one dataset of temperature, pressure,  *)
(* humidity or cumulative precipitation, whose fields lie around the       *)
(* thresholds of the unit conversion.                                      *)

ConvertVarMaps ==
    {Instant({"t"}), Instant({"prmsl"}), Instant({"r"}),
     [n \in {"tp"} |-> "accum"]}

ConvertCollections == [1 .. 1 -> StepDatasets(ConvertVarMaps)]

\* <<first cell, other cells>> in hundredths: 100.00 and 200.00; 150.00 and
\* 250.00, of mean 200 on two cells; 150.00 and 300.00; 70000 and 90000, of
\* mean 80000 on two cells; 70000 and 100000
ConvertCells ==
    {<<10000, 20000>>, <<15000, 25000>>, <<15000, 30000>>,
     <<7000000, 9000000>>, <<7000000, 10000000>>}

ConvertGrids == {[c \in Cells |-> IF c = 1 THEN p[1] ELSE p[2]] : p \in ConvertCells}

InitConvert == InitWith({1})

NextConvert == AssemblyOfFiles(ConvertCollections, ConvertGrids)

SpecConvert == InitConvert /\ [][NextConvert]_vars

\* the mean of the field exceeds the threshold (in whole units): the cells
\* exceed it by more than they fall short of it
MeanExceeds(x, threshold) ==
    LET RECURSIVE Excess(_)
        Excess(k) == IF k = 0 THEN 0
                     ELSE (x[k] - threshold * 100) + Excess(k - 1)
    IN Excess(GridSize) > 0

\* the value of the variable before the conversion: the raw field, or for
\* the accumulation variable the difference the step emits
BeforeConversion(disp_name, raw) ==
    IF get_variable_config[disp_name].is_accum
    THEN IF disp_name \in DOMAIN prev_accum_values
         THEN [c \in Cells |-> Max(raw[c] - prev_accum_values[disp_name][c], 0)]
         ELSE [c \in Cells |-> 0]
    ELSE raw

NormalizedStep ==
    StepProcessed =>
        \A disp_name \in DOMAIN NewBundle :
            LET raw == fields'[NewBundle[disp_name].base_var]
                x == BeforeConversion(disp_name, raw)
                out == NewBundle[disp_name].values
            IN /\ disp_name = "Temperature" =>
                     out = IF MeanExceeds(x, 200)
                           THEN [c \in Cells |-> x[c] - 27315] ELSE x
               /\ disp_name = "Pressure" =>
                     out = IF MeanExceeds(x, 80000)
                           THEN [c \in Cells |-> x[c] \div 100] ELSE x
               /\ disp_name \notin {"Temperature", "Pressure"} => out = x

\* C24: the conversion is decided once per field from the mean of the field
\* and applied to all its cells or to none: a temperature field of mean
\* above 200 has 273.15 subtracted, a pressure field of mean above 80000 is
\* divided by 100, a field at or below the threshold and a variable without
\* a conversion rule are left as they are; the accumulation variable is
\* differenced before it is normalized.
C24_UnitNormalizer == [][NormalizedStep]_vars

\* C24 witness: a temperature field of 150.00 and 300.00, of mean above 200,
\* is emitted as -123.15 and 26.85: the cell below the threshold is
\* converted too.
C24_Witness ==
    /\ pc = "steps"
    /\ Len(all_tasks) = 1
    /\ "Temperature" \in DOMAIN all_tasks[1].plot_data
    /\ fields[all_tasks[1].plot_data["Temperature"].base_var][1] = 15000
    /\ all_tasks[1].plot_data["Temperature"].values[1] = -12315
    /\ \A c \in Cells \ {1} :
          /\ fields[all_tasks[1].plot_data["Temperature"].base_var][c] = 30000
          /\ all_tasks[1].plot_data["Temperature"].values[c] = 2685

\* a pressure field of mean 80000 exactly, left as it is
C24_WitnessAtThreshold ==
    /\ pc = "steps"
    /\ GridSize = 2
    /\ Len(all_tasks) = 1
    /\ "Pressure" \in DOMAIN all_tasks[1].plot_data
    /\ all_tasks[1].plot_data["Pressure"].values = <<7000000, 9000000>>

-----------------------------------------------------------------------------
(* The downloader (download_msm.py).  The server lists, for every          *)
(* timestamp, the files <<timestamp, 1>> .. <<timestamp, MaxParts>>; a     *)
(* local file holds the complete content of the server's file or a part of *)
(* it.                                                                     *)

MaxStamp == 2       \* timestamps the server comes to list
MaxParts == 2       \* files of one timestamp
MaxRuns == 3        \* runs of the downloader

\* lines 104-120: the values get_existing_timestamp can return; without a
\* readable metadata file it is the timestamp of the first matching file
\* os.listdir gives, in an order of its own
get_existing_timestamp(meta, dir) ==
    IF meta.state = "saved" THEN {meta.timestamp}
    ELSE IF DOMAIN dir # {} THEN {f[1] : f \in DOMAIN dir}
    ELSE {NoTimestamp}

\* the data directory with the files of every timestamp kept
KeepOldData(dir, latest) == dir

\* lines 136-153: the files of another timestamp are removed
clean_old_data(dir, latest) ==
    [f \in {g \in DOMAIN dir : g[1] = latest} |-> dir[f]]

\* lines 173-183: the metadata file after save_metadata; open or json.dump
\* can raise, which line 182 catches
save_metadata(meta, timestamp, outcome) ==
    CASE outcome = "ok" -> SavedMetadata(timestamp)
      [] outcome = "open_error" -> meta
      [] outcome = "dump_error" -> CorruptMetadata

\* what happens to a download: it completes, the request raises (lines
\* 206-207), the writing raises (lines 208-210), or the process is
\* interrupted while writing (an interrupt is not an Exception: line 212
\* does not catch it)
DownloadOutcomes == {"ok", "request_error", "write_error", "interrupt"}

WithFile(dir, filepath, content) ==
    [f \in DOMAIN dir \cup {filepath} |->
        IF f = filepath THEN content ELSE dir[f]]

\* a download that replaces the file the target path holds
DownloadOverwrites(dir, filepath, outcome) ==
    [requested |-> TRUE,
     dir |-> CASE outcome = "ok" -> WithFile(dir, filepath, "complete")
               [] outcome = "interrupt" -> WithFile(dir, filepath, "partial")
               [] OTHER -> [f \in DOMAIN dir \ {filepath} |-> dir[f]]]

\* lines 200-215: the data directory after download_file and whether a
\* request was issued
download_file(dir, filepath, outcome) ==
    IF filepath \in DOMAIN dir
    THEN [requested |-> FALSE, dir |-> dir]
    ELSE [requested |-> TRUE,
          dir |-> CASE outcome = "ok" -> WithFile(dir, filepath, "complete")
                    [] outcome = "request_error" -> dir
                    [] outcome = "write_error" -> dir
                    [] outcome = "interrupt" ->
                          WithFile(dir, filepath, "partial")]

\* line 303: sorted(list(timestamps))[-1]
Latest(timestamps) == CHOOSE t \in timestamps : \A u \in timestamps : u <= t

\* line 317: files_map[latest_timestamp], in the order of the listing
target_files == [k \in 1 .. MaxParts |-> <<latest_timestamp, k>>]

\* lines 237-247: a run begins
DlStart ==
    /\ dl_pc \in {"idle", "done", "killed"}
    /\ dl_runs < MaxRuns
    /\ dl_pc' = "find"
    /\ existing_timestamp' \in get_existing_timestamp(metadata_file, data_dir)
    /\ latest_timestamp' = NoTimestamp
    /\ target_pos' = 1
    /\ dl_log' = <<>>
    /\ dl_runs' = dl_runs + 1
    /\ UNCHANGED <<data_dir, metadata_file, server, pc, asmVars, poolVars>>

\* lines 252-301: a listing cannot be fetched or holds no file; main returns
DlFindFails ==
    /\ dl_pc = "find"
    /\ dl_pc' = "done"
    /\ UNCHANGED <<data_dir, metadata_file, server, existing_timestamp,
                   latest_timestamp, target_pos, dl_log, dl_runs,
                   pc, asmVars, poolVars>>

\* lines 252-304: the latest timestamp of the listing is found
DlFind ==
    /\ dl_pc = "find"
    /\ server # {}
    /\ latest_timestamp' = Latest(server)
    /\ dl_pc' = "compare"
    /\ UNCHANGED <<data_dir, metadata_file, server, existing_timestamp,
                   target_pos, dl_log, dl_runs, pc, asmVars, poolVars>>

\* lines 307-309: the data is up to date, main returns
DlUpToDate ==
    /\ dl_pc = "compare"
    /\ existing_timestamp = latest_timestamp
    /\ dl_pc' = "done"
    /\ UNCHANGED <<data_dir, metadata_file, server, existing_timestamp,
                   latest_timestamp, target_pos, dl_log, dl_runs,
                   pc, asmVars, poolVars>>

\* lines 310-315: the timestamps differ; the old files are removed when
\* there was a timestamp
DlClean ==
    /\ dl_pc = "compare"
    /\ existing_timestamp # latest_timestamp
    /\ data_dir' = IF existing_timestamp # NoTimestamp
                   THEN clean_old_data(data_dir, latest_timestamp)
                   ELSE data_dir
    /\ dl_log' = IF existing_timestamp # NoTimestamp
                 THEN Append(dl_log, <<"clean", latest_timestamp>>)
                 ELSE dl_log
    /\ dl_pc' = "download"
    /\ target_pos' = 1
    /\ UNCHANGED <<metadata_file, server, existing_timestamp,
                   latest_timestamp, dl_runs, pc, asmVars, poolVars>>

\* lines 320-323: one iteration of the loop over target_files
DlDownload ==
    /\ dl_pc = "download"
    /\ target_pos <= Len(target_files)
    /\ \E outcome \in DownloadOutcomes :
          LET filepath == target_files[target_pos]
              r == download_file(data_dir, filepath, outcome)
          IN /\ data_dir' = r.dir
             /\ dl_log' = IF r.requested
                          THEN Append(dl_log, <<"get", filepath>>)
                          ELSE dl_log
             /\ IF r.requested /\ outcome = "interrupt"
                THEN dl_pc' = "killed" /\ target_pos' = target_pos
                ELSE dl_pc' = dl_pc /\ target_pos' = target_pos + 1
    /\ UNCHANGED <<metadata_file, server, existing_timestamp,
                   latest_timestamp, dl_runs, pc, asmVars, poolVars>>

\* lines 325-327: the loop is over, the metadata is saved
DlSave ==
    /\ dl_pc = "download"
    /\ target_pos > Len(target_files)
    /\ \E outcome \in {"ok", "open_error", "dump_error"} :
          metadata_file' =
              save_metadata(metadata_file, latest_timestamp, outcome)
    /\ dl_log' = Append(dl_log, <<"save", latest_timestamp>>)
    /\ dl_pc' = "done"
    /\ UNCHANGED <<data_dir, server, existing_timestamp, latest_timestamp,
                   target_pos, dl_runs, pc, asmVars, poolVars>>

\* the server lists the files of a new timestamp, between two runs
Publish ==
    /\ dl_pc \in {"idle", "done", "killed"}
    /\ Latest(server) < MaxStamp
    /\ server' = server \cup {Latest(server) + 1}
    /\ UNCHANGED <<dl_pc, data_dir, metadata_file, existing_timestamp,
                   latest_timestamp, target_pos, dl_log, dl_runs,
                   pc, asmVars, poolVars>>

InitDownload == InitWith({0})

NextDownload ==
    \/ DlStart
    \/ DlFindFails
    \/ DlFind
    \/ DlUpToDate
    \/ DlClean
    \/ DlDownload
    \/ DlSave
    \/ Publish

SpecDownload == InitDownload /\ [][NextDownload]_vars

-----------------------------------------------------------------------------
(* Properties of the downloader.                                           *)

\* a step of the loop over target_files
DownloadStep ==
    /\ dl_pc = "download"
    /\ target_pos' = target_pos + 1 \/ dl_pc' = "killed"

\* download_file has returned to the loop
DownloadReturns == dl_pc = "download" /\ target_pos' = target_pos + 1

\* the requests of the run
Requested(log) == {log[k][2] : k \in {j \in DOMAIN log : log[j][1] = "get"}}

NoOverwriteStep ==
    DownloadStep =>
        LET filepath == target_files[target_pos]
        IN /\ filepath \in DOMAIN data_dir
                 => /\ UNCHANGED <<data_dir, dl_log>>
                    /\ DownloadReturns
           /\ filepath \notin DOMAIN data_dir
                 => dl_log' = Append(dl_log, <<"get", filepath>>)
           /\ \A f \in DOMAIN data_dir :
                 f # filepath => f \in DOMAIN data_dir' /\ data_dir'[f] = data_dir[f]
           /\ DOMAIN data_dir' \subseteq DOMAIN data_dir \cup {filepath}

NoPartialStep ==
    DownloadReturns =>
        LET filepath == target_files[target_pos]
        IN \/ UNCHANGED data_dir
           \/ filepath \notin DOMAIN data_dir'
           \/ data_dir'[filepath] = "complete"

\* C25: download_file does not overwrite a local file: when the target path
\* exists it returns without a request and without a change; when it
\* returns, the target did not change, or is absent, or holds the complete
\* content.
C25_NoOverwriteNoPartial == [][NoOverwriteStep /\ NoPartialStep]_vars

\* C25 witness: the third run finds the first file of timestamp 2 as an
\* interrupted run left it and does not request it; the download of the
\* second file failed and left no file.
C25_Witness ==
    /\ dl_runs = 3
    /\ dl_pc = "download"
    /\ target_pos = MaxParts + 1
    /\ latest_timestamp = 2
    /\ <<2, 1>> \in DOMAIN data_dir
    /\ data_dir[<<2, 1>>] = "partial"
    /\ <<2, 2>> \notin DOMAIN data_dir
    /\ <<2, 1>> \notin Requested(dl_log)
    /\ <<2, 2>> \in Requested(dl_log)

\* the run has compared the timestamps and found them equal
FoundUpToDate ==
    /\ dl_pc \in {"compare", "done"}
    /\ latest_timestamp # NoTimestamp
    /\ existing_timestamp = latest_timestamp

\* the files of a timestamp other than the latest one
OldFiles(dir) == {f \in DOMAIN dir : f[1] # latest_timestamp}

\* the position of the events of a run: cleaning, then requests, then saving
Phase(event) ==
    CASE event[1] = "clean" -> 1 [] event[1] = "get" -> 2 [] event[1] = "save" -> 3

\* a run that found the data up to date did nothing; in any run the
\* cleaning comes before every request and the saving after all of them,
\* once each at most
DownloadOrder ==
    /\ FoundUpToDate => dl_log = <<>>
    /\ \A j, k \in DOMAIN dl_log :
          j < k => /\ Phase(dl_log[j]) <= Phase(dl_log[k])
                   /\ Phase(dl_log[j]) = Phase(dl_log[k]) => Phase(dl_log[j]) = 2
    /\ dl_pc = "compare" =>
          ENABLED (IF existing_timestamp = latest_timestamp
                   THEN DlUpToDate ELSE DlClean)

UpToDateStep ==
    /\ FoundUpToDate => UNCHANGED <<data_dir, metadata_file>>
    /\ FoundUpToDate /\ dl_pc = "compare" => dl_pc' = "done"

OutdatedStep ==
    /\ DownloadStep /\ dl_log' # dl_log =>
          /\ existing_timestamp # latest_timestamp
          /\ OldFiles(data_dir) = {}
    /\ dl_pc = "compare" /\ dl_pc' = "download" =>
          /\ OldFiles(data_dir') = {}
          /\ \A f \in DOMAIN data_dir \ OldFiles(data_dir) :
                f \in DOMAIN data_dir' /\ data_dir'[f] = data_dir[f]
    /\ metadata_file' # metadata_file =>
          /\ dl_pc = "download" /\ dl_pc' = "done"
          /\ target_pos > Len(target_files)
          /\ metadata_file'.timestamp \in {latest_timestamp, NoTimestamp}

C26_WitnessUpToDate ==
    /\ dl_runs = 3
    /\ dl_pc = "done"
    /\ existing_timestamp = 2
    /\ latest_timestamp = 2
    /\ dl_log = <<>>
    /\ metadata_file = SavedMetadata(2)

-----------------------------------------------------------------------------
(* Properties of the accumulation across the steps of a file.              *)

\* the steps of the open file at which precipitation was resolved, with
\* the raw field of each
SeenOf(disp_name) == SelectSeq(accum_seen, LAMBDA e : e[1] = disp_name)

LastSeen(disp_name) == SeenOf(disp_name)[Len(SeenOf(disp_name))]

\* a step of the list between the last step that resolved the variable and
\* the step being processed
GapBefore(disp_name) ==
    /\ SeenOf(disp_name) # <<>>
    /\ \E k \in 1 .. step_pos - 1 : steps[k] > LastSeen(disp_name)[2]

\* the stored state is the raw field of the last step that resolved the
\* variable, however many steps went by since
StateIsLastSeen ==
    pc = "steps" =>
        /\ Precip \in DOMAIN prev_accum_values <=> SeenOf(Precip) # <<>>
        /\ SeenOf(Precip) # <<>> =>
              prev_accum_values[Precip] = LastSeen(Precip)[3]

GapStep ==
    /\ StepProcessed /\ Precip \notin DOMAIN NewBundle
          => UNCHANGED <<prev_accum_values, accum_seen>>
    /\ StepProcessed /\ Precip \in DOMAIN NewBundle /\ GapBefore(Precip)
          => LET R3 == fields'[NewBundle[Precip].base_var]
                 R1 == LastSeen(Precip)[3]
             IN /\ NewBundle[Precip].values =
                       [c \in Cells |-> Max(R3[c] - R1[c], 0)]
                /\ prev_accum_values'[Precip] = R3
                /\ LastSeen(Precip)' = <<Precip, steps[step_pos], R3>>

-----------------------------------------------------------------------------
(* The assembly of one file whose datasets hold wind components: one of    *)
(* the pairs, both pairs, or an incomplete pair.                           *)

WindVarMaps ==
    {Instant({"u10", "v10"}), Instant({"u", "v"}),
     Instant({"u", "v", "u10", "v10"}), Instant({"u10", "v"})}

WindCollections ==
    CollectionsOf(StepDatasets(WindVarMaps)
                      \cup {NoStepDataset(Instant({"u", "v"}))})

\* one field: equal components 3, 6, ... give the speeds 4, 8, ...
WindGrids == {[c \in Cells |-> 3 * c]}

InitWind == InitWith({1})

NextWind == AssemblyOfFiles(WindCollections, WindGrids)

SpecWind == InitWind /\ [][NextWind]_vars

\* the first dataset, in collection order, that holds a complete pair; 0
\* when none does
FirstPairDataset ==
    IF \E d \in DOMAIN datasets : HoldsPair(d)
    THEN CHOOSE d \in DOMAIN datasets :
            HoldsPair(d) /\ \A e \in 1 .. d - 1 : ~HoldsPair(e)
    ELSE 0

\* the pair taken from a dataset: u10 and v10 when it holds both
PairOf(d) ==
    IF {"u10", "v10"} \subseteq DOMAIN datasets[d].vars
    THEN <<"u10", "v10">> ELSE <<"u", "v">>

WindSelectionStep ==
    StepProcessed =>
        LET d == FirstPairDataset
            step == steps[step_pos]
        IN IF d # 0 /\ datasets[d].hasStep /\ step \in datasets[d].steps
           THEN /\ Wind \in DOMAIN NewBundle
                /\ NewBundle[Wind].base_var = <<d, PairOf(d)[1]>>
                /\ NewBundle[Wind].values =
                      [c \in Cells |->
                          ISqrt(fields'[<<d, PairOf(d)[1]>>][c]
                                    * fields'[<<d, PairOf(d)[1]>>][c]
                                + fields'[<<d, PairOf(d)[2]>>][c]
                                    * fields'[<<d, PairOf(d)[2]>>][c])]
           ELSE Wind \notin DOMAIN NewBundle

\* C28: Wind Speed is taken from the first dataset, in collection order,
\* that holds a complete pair, whatever steps it has (u10 and v10 are
\* preferred to u and v within that dataset only); when that dataset lacks
\* the step the variable is omitted at the step, even when a later dataset
\* holds a complete pair at the step.
C28_WindIgnoresStep == [][WindSelectionStep]_vars

\* C28 witness: the first dataset holds u and v at step 2 only, the second
\* holds u10 and v10 at the steps 1 and 2; step 1 gave no task, and the wind
\* of step 2 is computed from u and v of the first dataset.
C28_Witness ==
    /\ pc = "steps"
    /\ step_pos = 3
    /\ Len(datasets) = 2
    /\ datasets[1] = [hasStep |-> TRUE, steps |-> {2}, vars |-> Instant({"u", "v"})]
    /\ datasets[2] = [hasStep |-> TRUE, steps |-> {1, 2},
                      vars |-> Instant({"u10", "v10"})]
    /\ Len(all_tasks) = 1
    /\ origin[1] = <<1, 2>>
    /\ Wind \in DOMAIN all_tasks[1].plot_data
    /\ all_tasks[1].plot_data[Wind].base_var = <<1, "u">>

\* the files the server lists for a timestamp
ListedFor(timestamp) == {<<timestamp, k>> : k \in 1 .. MaxParts}

\* no run of the downloader is going on
BetweenRuns == dl_pc \in {"idle", "done", "killed"}

\* the metadata records a timestamp only with all its files in the directory
MetadataImpliesFiles ==
    BetweenRuns /\ metadata_file.state = "saved"
        => ListedFor(metadata_file.timestamp) \subseteq DOMAIN data_dir

\* a run that found the data up to date left no listed file missing
UpToDateSkipsNothing ==
    FoundUpToDate /\ dl_pc = "done"
        => ListedFor(latest_timestamp) \subseteq DOMAIN data_dir

\* C29: after any run of download_msm.main, metadata.json records the
\* timestamp T only if every file the server lists for T is in the data
\* directory; hence a later run that finds the data up to date skips no
\* file that is missing locally.
C29_MetadataInvariant == MetadataImpliesFiles /\ UpToDateSkipsNothing

-----------------------------------------------------------------------------
(* The frames directory as create_frame_viewer reads it after a run.       *)

\* create_frame_viewer.py line 47: glob("*_metadata.json") in FRAMES_DIR
MetadataFiles(dir) == {path \in DOMAIN dir : IsSidecar(path)}

\* create_frame_viewer.py lines 27-62: the records of the sidecars json.load
\* can read (a sidecar cut short raises and is skipped with a warning),
\* sorted by frame_index
collect_frame_data(dir) ==
    LET frames_data == {dir[path].content :
                           path \in {p \in MetadataFiles(dir) : dir[p].complete}}
        RECURSIVE Srt(_)
        Srt(T) == IF T = {} THEN <<>>
                  ELSE LET m == CHOOSE x \in T :
                                    \A y \in T : x.frame_index <= y.frame_index
                       IN <<m>> \o Srt(T \ {m})
    IN Srt(frames_data)

\* the metadata records of the frames rendered in this run, by frame index
RenderedRecords ==
    LET RECURSIVE R(_)
        R(k) == IF k = 0 THEN <<>>
                ELSE IF k \in Succeeded
                     THEN Append(R(k - 1), Metadata(all_tasks[k]))
                     ELSE R(k - 1)
    IN R(Len(all_tasks))

\* C30: after visualize_final.main completes, the records collect_frame_data
\* returns are exactly the records of the frames rendered successfully in
\* that run: no sidecar left by an earlier run that produced more frames, or
\* at the path of a frame that failed in this run, is included.
C30_NoStaleFrames ==
    pc = "done" => collect_frame_data(frames_dir) = RenderedRecords

\* the case where nothing is left over: every task rendered and the earlier
\* run had no more frames than this one
C30_CleanRun ==
    /\ pc = "done"
    /\ Succeeded = DOMAIN all_tasks
    /\ \A path \in DOMAIN frames_dir : frames_dir[path].run = "this"
    /\ Len(collect_frame_data(frames_dir)) = FrameTasks

=============================================================================
